---------------------------- MODULE Spec2Model ----------------------------
(***************************************************************************)
(* Model of the Telegram monitor: the message handler with its dedup       *)
(* store and notification records (utils/messageUtils.js,                  *)
(* core/telegram-monitor.js), the periodic expiry sweep                    *)
(* (core/message-deleter.js) and the one-shot purge                        *)
(* (delete-all-history.js).                                                *)
(*                                                                         *)
(* Strings are sequences of one-character strings, so that the id and     *)
(* list conversions are computed the way the code computes them.           *)
(***************************************************************************)
EXTENDS Integers, Sequences, FiniteSets, TLC

\* the value of an absent string or id (null / undefined); no text equals it
Null == <<"null">>

\* the value of an absent time
NoTime == -1

(***************************************************************************)
(* String helpers                                                          *)
(***************************************************************************)
DigitChars == {"0", "1", "2", "3", "4", "5", "6", "7", "8", "9"}

\* \s of the regular expressions
WsChars == {" ", "\n"}

HasPrefix(s, p) == Len(s) >= Len(p) /\ SubSeq(s, 1, Len(p)) = p

DropFirst(s, n) == SubSeq(s, n + 1, Len(s))

\* String.prototype.replace(/\s+/g, '')
StripWs(s) == SelectSeq(s, LAMBDA c : c \notin WsChars)

\* String.prototype.trim()
RECURSIVE TrimLeft(_)
TrimLeft(s) ==
    IF s # <<>> /\ Head(s) \in WsChars THEN TrimLeft(Tail(s)) ELSE s

RECURSIVE TrimRight(_)
TrimRight(s) ==
    IF s # <<>> /\ s[Len(s)] \in WsChars
    THEN TrimRight(SubSeq(s, 1, Len(s) - 1))
    ELSE s

Trim(s) == TrimRight(TrimLeft(s))

\* the longest leading run of digits, the capture group (\d*)
RECURSIVE DigitRun(_)
DigitRun(s) ==
    IF s # <<>> /\ Head(s) \in DigitChars
    THEN <<Head(s)>> \o DigitRun(Tail(s))
    ELSE <<>>

\* String.prototype.split(',')
RECURSIVE SplitComma(_)
SplitComma(s) ==
    IF \A i \in 1..Len(s) : s[i] # ","
    THEN <<s>>
    ELSE LET k == CHOOSE i \in 1..Len(s) :
                      s[i] = "," /\ \A j \in 1..(i - 1) : s[j] # ","
         IN  <<SubSeq(s, 1, k - 1)>> \o SplitComma(DropFirst(s, k))

\* Array.prototype.map
MapSeq(f(_), s) == [i \in 1..Len(s) |-> f(s[i])]

\* Array.prototype.includes
Includes(s, x) == \E i \in 1..Len(s) : s[i] = x

\* .filter(Boolean) on an array of strings: the empty string is falsy
NonEmptyStr(x) == x # <<>>

FilterNonEmpty(s) == SelectSeq(s, NonEmptyStr)

\* String.prototype.includes
IsSubstring(text, kw) ==
    \E i \in 0..(Len(text) - Len(kw)) : SubSeq(text, i + 1, i + Len(kw)) = kw

(***************************************************************************)
(* utils/formatUtils.js                                                    *)
(***************************************************************************)
\* the optional group (?:-?100|-)? : the alternatives are tried in order
StripIdPrefix(s) ==
    IF HasPrefix(s, <<"-", "1", "0", "0">>) THEN DropFirst(s, 4)
    ELSE IF HasPrefix(s, <<"1", "0", "0">>) THEN DropFirst(s, 3)
    ELSE IF HasPrefix(s, <<"-">>) THEN DropFirst(s, 1)
    ELSE s

normalizeId(raw) ==
    IF raw = Null THEN <<>> ELSE DigitRun(StripIdPrefix(StripWs(raw)))

\* parseChatIds(chatIds, validateNumeric)
StripMinus100(id) ==
    IF HasPrefix(id, <<"-", "1", "0", "0">>) THEN DropFirst(id, 4) ELSE id

IsAllDigits(id) == id # <<>> /\ \A i \in 1..Len(id) : id[i] \in DigitChars

parseChatIds(chatIds, validateNumeric) ==
    IF chatIds = Null \/ chatIds = <<>> THEN <<>>
    ELSE LET ids == MapSeq(StripMinus100,
                           FilterNonEmpty(MapSeq(Trim, SplitComma(chatIds))))
         IN  IF validateNumeric THEN SelectSeq(ids, IsAllDigits) ELSE ids

(***************************************************************************)
(* core/telegram-monitor.js: configuration parsing                         *)
(***************************************************************************)
parseConfigList(rawConfig) ==
    IF rawConfig = Null \/ rawConfig = <<>> THEN <<>>
    ELSE FilterNonEmpty(MapSeq(Trim, SplitComma(rawConfig)))


(***************************************************************************)
(* State                                                                   *)
(***************************************************************************)
VARIABLES
    cfg,                      \* the configuration and the rules derived from it at startup
    now,                      \* Date.now(), in milliseconds since startup
    nextCleanup,              \* when the setInterval timer of the dedup sweep is due next
    lastCleanup,              \* when cleanupProcessedMessages ran last, NoTime before the first run
    processedMessages,        \* Map<dedupKey, ts>
    sentNotificationMessages, \* Map<target chat, sequence of dispatched message ids>
    notifSeq,                 \* the id the backend gives the next dispatched notification
    acceptedAt,               \* history: dedupKey -> time handleMessage last forwarded it
    last                      \* history: the handler run that just ended and the calls
                              \* it issued; reset when the clock or a timer moves on

monitorVars == <<cfg, now, nextCleanup, lastCleanup, processedMessages,
                 sentNotificationMessages, notifSeq, acceptedAt, last>>

VARIABLES
    processEnv,               \* process.env as core/message-deleter.js reads it
    deleteInterval,           \* period of the auto-delete timer in ms, 0 when none was started
    sweep,                    \* the locals of the running deleteExpiredMessages call
    calls                     \* history: the backend calls the current sweep has issued

sweepVars == <<processEnv, deleteInterval, sweep, calls>>

VARIABLES
    purgeEnv,                 \* CONFIG of delete-all-history.js, as read from process.env
    purge                     \* the locals of the running deleteAllHistory call, and
                              \* history: the backend call it issued last, the time
                              \* slept after it, how often the current batch
                              \* failed with an error other than a rate limit,
                              \* the parity of the number of calls issued, and
                              \* whether the fetch of the current chat ended on an
                              \* error other than a rate limit

purgeVars == <<purgeEnv, purge>>

VARIABLES
    idCall,                   \* a raw id and the results of the normalizeId calls
                              \* applied to it, one after the other
    procEnv,                  \* process.env as realtime-monitor.js reads it
    proc,                     \* the monitor process: its module-level variables, the
                              \* pending awaits of startMonitoring and stopMonitoring,
                              \* and its exit status
    inflight                  \* the handleMessage invocations suspended at a backend
                              \* call, each with its locals, the runs of
                              \* deleteExpiredMessages a timer tick started while
                              \* one was in progress, and history: the
                              \* sendNotification calls, the ids appended to the
                              \* dispatch records and the ids handed to delete calls

procVars == <<idCall, procEnv, proc, inflight>>

vars == <<monitorVars, sweepVars, purgeVars, procVars>>

(***************************************************************************)
(* Bounds of the model                                                     *)
(***************************************************************************)
\* the clock advances in steps of TickMs, up to MaxTicks steps
TickMs == 30000
MaxTicks == 6
\* DEDUP_WINDOW_MINUTES ranges over 1..MaxWindow
MaxWindow == 2
\* dispatched notifications get the ids 1..MaxNotifId
MaxNotifId == 1

(***************************************************************************)
(* Program constants                                                       *)
(***************************************************************************)
CLEANUP_INTERVAL_MS == 60 * 1000

\* the ids of the model's users
SelfUserId == <<"7">>
BotUserId == <<"8">>
OtherUserId == <<"9">>

(***************************************************************************)
(* utils/messageUtils.js: message content                                  *)
(***************************************************************************)
MediaPlaceholder == <<"[", "m", "e", "d", "i", "a", "]">>
EmptyPlaceholder == <<"[", "e", "m", "p", "t", "y", "]">>

\* extractMessageText: message.message, else ''
extractMessageText(msg) == msg.message

\* processMessageContent(message).displayText
displayTextOf(msg) ==
    IF extractMessageText(msg) # <<>> THEN extractMessageText(msg)
    ELSE IF msg.hasMedia THEN MediaPlaceholder
    ELSE EmptyPlaceholder

LowerChars == <<"a", "b", "c", "d", "e", "f", "g", "h", "i", "j", "k", "l", "m",
                "n", "o", "p", "q", "r", "s", "t", "u", "v", "w", "x", "y", "z">>
UpperChars == <<"A", "B", "C", "D", "E", "F", "G", "H", "I", "J", "K", "L", "M",
                "N", "O", "P", "Q", "R", "S", "T", "U", "V", "W", "X", "Y", "Z">>

ToLowerChar(c) ==
    IF \E i \in 1..26 : UpperChars[i] = c
    THEN LowerChars[CHOOSE i \in 1..26 : UpperChars[i] = c]
    ELSE c

\* String.prototype.toLowerCase
ToLower(s) == [i \in 1..Len(s) |-> ToLowerChar(s[i])]

\* \w of the regular expressions
IsWordChar(c) ==
    \/ \E i \in 1..26 : LowerChars[i] = c \/ UpperChars[i] = c
    \/ c \in DigitChars
    \/ c = "_"

\* /[^\w\s]/.test(keyword) || /\s/.test(keyword)
IsLiteralKeyword(kw) ==
    \/ \E i \in 1..Len(kw) : ~IsWordChar(kw[i]) /\ kw[i] \notin WsChars
    \/ \E i \in 1..Len(kw) : kw[i] \in WsChars

\* new RegExp(`\\b${keyword}\\b`, 'i').test(textLower), keyword made of \w only
WordBoundaryMatch(text, kw) ==
    \E i \in 0..(Len(text) - Len(kw)) :
        /\ SubSeq(text, i + 1, i + Len(kw)) = kw
        /\ (i = 0 \/ ~IsWordChar(text[i]))
        /\ (i + Len(kw) = Len(text) \/ ~IsWordChar(text[i + Len(kw) + 1]))

\* faulty variant: every keyword matched as a plain substring
matchKeywordAnywhere(keywordList, textLower) ==
    \E k \in 1..Len(keywordList) : IsSubstring(textLower, ToLower(keywordList[k]))

matchKeyword(keywordList, textLower) ==
    \E k \in 1..Len(keywordList) :
        IF IsLiteralKeyword(keywordList[k])
        THEN IsSubstring(textLower, keywordList[k])
        ELSE WordBoundaryMatch(textLower, ToLower(keywordList[k]))

\* faulty variant: the text has to be a trigger keyword, not to contain one
shouldDeleteOnWholeText(messageText, deleteNotificationKeywords) ==
    /\ Len(deleteNotificationKeywords) > 0
    /\ \E k \in 1..Len(deleteNotificationKeywords) :
           messageText = deleteNotificationKeywords[k]

shouldDeletePreviousNotifications(messageText, deleteNotificationKeywords) ==
    /\ Len(deleteNotificationKeywords) > 0
    /\ \E k \in 1..Len(deleteNotificationKeywords) :
           IsSubstring(messageText, deleteNotificationKeywords[k])

(***************************************************************************)
(* realtime-monitor.js / core/telegram-monitor.js: startup                 *)
(***************************************************************************)
\* what parseInt yields for an unset or non-numeric variable
NaN == -9999

\* parseInt(x) || d : NaN and 0 are falsy
OrDefault(x, d) == IF x = NaN \/ x = 0 THEN d ELSE x

Max(a, b) == IF a >= b THEN a ELSE b

DEFAULT_AUTO_DELETE_MINUTES == 10

\* realtime-monitor.js: const AUTO_DELETE_MINUTES = parseInt(...) || 10
AutoDeleteMinutesOf(envValue) == OrDefault(envValue, DEFAULT_AUTO_DELETE_MINUTES)

\* parseInt(DEDUP_WINDOW_MINUTES) || Math.max(1, AUTO_DELETE_MINUTES)
DedupWindowMinutesOf(envValue, autoDeleteMinutes) ==
    OrDefault(envValue, Max(1, autoDeleteMinutes))

\* fetchBotInfo: '' without a token or when the request fails
BotUserIdNormalizedOf(env) ==
    IF env.TELEGRAM_BOT_TOKEN /\ env.botInfoOk THEN normalizeId(BotUserId) ELSE <<>>

\* the values initializeMonitoring derives once and hands to every handleMessage
initializeMonitoring(env) ==
    [ monitorChatIds |-> parseConfigList(env.MONITOR_CHAT_IDS),
      normalizedMonitorIds |->
          FilterNonEmpty(MapSeq(normalizeId, parseConfigList(env.MONITOR_CHAT_IDS))),
      monitorKeywordsNormalized |->
          FilterNonEmpty(MapSeq(ToLower, parseConfigList(env.MONITOR_KEYWORDS))),
      notMonitorChatIds |-> parseConfigList(env.NOT_MONITOR_CHAT_IDS),
      normalizedNotMonitorIds |->
          FilterNonEmpty(MapSeq(normalizeId, parseConfigList(env.NOT_MONITOR_CHAT_IDS))),
      targetUserIdsNormalized |->
          FilterNonEmpty(MapSeq(normalizeId, parseConfigList(env.TARGET_USER_IDS))),
      userKeywordsNormalized |->
          FilterNonEmpty(MapSeq(ToLower, parseConfigList(env.USER_KEYWORDS))),
      deleteNotificationKeywords |-> parseConfigList(env.DELETE_NOTIFICATION_KEYWORDS),
      DEDUP_WINDOW_MINUTES |->
          DedupWindowMinutesOf(env.DEDUP_WINDOW_MINUTES,
                               AutoDeleteMinutesOf(env.AUTO_DELETE_MINUTES)),
      SELF_USER_ID_NORMALIZED |-> normalizeId(SelfUserId),
      BOT_USER_ID_NORMALIZED |-> BotUserIdNormalizedOf(env),
      NOTIFICATION_CHAT_ID |-> env.NOTIFICATION_CHAT_ID,
      TELEGRAM_BOT_TOKEN |-> env.TELEGRAM_BOT_TOKEN ]

(***************************************************************************)
(* utils/messageUtils.js: handleMessage, the classification                *)
(***************************************************************************)
\* chat.id.toString() of the resolved entity, or the id rebuilt from the peer
\* when client.getEntity throws
chatIdOf(msg, ent) ==
    IF ent = "throw"
    THEN IF msg.peerId.channelId # Null
              THEN <<"-", "1", "0", "0">> \o msg.peerId.channelId
         ELSE IF msg.peerId.chatId # Null THEN <<"-">> \o msg.peerId.chatId
         ELSE IF msg.peerId.userId # Null THEN msg.peerId.userId
         ELSE Null
    ELSE IF msg.peerId.channelId # Null THEN msg.peerId.channelId
    ELSE IF msg.peerId.chatId # Null THEN msg.peerId.chatId
    ELSE msg.peerId.userId

\* normalizeId(NOTIFICATION_CHAT_ID): of the configured string as a whole
normalizedNotifChatIdOf(c) == normalizeId(c.NOTIFICATION_CHAT_ID)

\* if (normalizedChatId === normalizedNotifChatId)
IsNotificationChat(c, normalizedChatId) ==
    normalizedChatId = normalizedNotifChatIdOf(c)

\* faulty variant: the chat looked up in the list as configured, not as normalized
IsDeniedAsConfigured(c, normalizedChatId) ==
    Includes(c.notMonitorChatIds, normalizedChatId)

\* normalizedNotMonitorIds.includes(normalizedChatId)
IsDenied(c, normalizedChatId) ==
    Includes(c.normalizedNotMonitorIds, normalizedChatId)

\* normalizedMonitorIds.length === 0 ||
\*     (normalizedChatId && normalizedMonitorIds.includes(normalizedChatId))
IsMonitored(c, normalizedChatId) ==
    \/ Len(c.normalizedMonitorIds) = 0
    \/ /\ normalizedChatId # <<>>
       /\ Includes(c.normalizedMonitorIds, normalizedChatId)

\* normalizeId('-' + peerId.chatId) of a peer that carries a chat id next to
\* its channel id; '' for any other peer
oldChatIdOf(msg) ==
    IF msg.peerId.chatId # Null /\ msg.peerId.channelId # Null
    THEN normalizeId(<<"-">> \o msg.peerId.chatId)
    ELSE <<>>

\* step 6: a group migrated to a channel is monitored under its old id
IsMigratedMonitored(c, msg) ==
    /\ msg.peerId.chatId # Null
    /\ msg.peerId.channelId # Null
    /\ Includes(c.normalizedMonitorIds, normalizeId(<<"-">> \o msg.peerId.chatId))

\* NOTIFICATION_CHAT_ID.split(',').map(id => id.trim())
notificationChatIdsOf(c) == MapSeq(Trim, SplitComma(c.NOTIFICATION_CHAT_ID))

\* faulty variant: a target user passes only on a per-user keyword match
shouldProcessOnKeywordOnly(c, normalizedSenderId, textLower) ==
    \/ /\ normalizedSenderId # <<>>
       /\ Includes(c.targetUserIdsNormalized, normalizedSenderId)
       /\ matchKeyword(c.userKeywordsNormalized, textLower)
    \/ matchKeyword(c.monitorKeywordsNormalized, textLower)
    \/ Len(c.monitorKeywordsNormalized) = 0 /\ Len(c.userKeywordsNormalized) = 0

\* the keyword rules: shouldProcessMessage
shouldProcessMessage(c, normalizedSenderId, textLower) ==
    LET isTargetUser ==
            /\ normalizedSenderId # <<>>
            /\ Len(c.targetUserIdsNormalized) > 0
            /\ Includes(c.targetUserIdsNormalized, normalizedSenderId)
        hasUserKeyword ==
            /\ Len(c.userKeywordsNormalized) > 0
            /\ matchKeyword(c.userKeywordsNormalized, textLower)
        hasMonitorKeyword ==
            /\ Len(c.monitorKeywordsNormalized) > 0
            /\ matchKeyword(c.monitorKeywordsNormalized, textLower)
    IN  \/ isTargetUser /\ (Len(c.userKeywordsNormalized) = 0 \/ hasUserKeyword)
        \/ hasMonitorKeyword
        \/ Len(c.monitorKeywordsNormalized) = 0 /\ Len(c.userKeywordsNormalized) = 0

\* the retraction check of a monitored chat: whose messages may trigger it
shouldCheckDeleteKeyword(c, normalizedSenderId) ==
    \/ Len(c.targetUserIdsNormalized) = 0
    \/ /\ normalizedSenderId # <<>>
       /\ Includes(c.targetUserIdsNormalized, normalizedSenderId)

\* the decision of one handleMessage run on message msg, with ent the result of
\* client.getEntity ("group", "broadcast" or "throw"), against the rules c and
\* the dedup store; retract tells whether deletePreviousNotifications ran
classify(c, store, msg, ent) ==
    LET normalizedChatId == normalizeId(chatIdOf(msg, ent))
        normalizedSenderId == normalizeId(msg.fromId)
        displayText == displayTextOf(msg)
        triggered ==
            shouldDeletePreviousNotifications(displayText, c.deleteNotificationKeywords)
        inNotif == IsNotificationChat(c, normalizedChatId)
        notifTriggered == inNotif /\ triggered
        listed == IsMonitored(c, normalizedChatId)
        isMonitored ==
            \/ listed
            \/ Len(c.monitorChatIds) = 0 /\ IsMigratedMonitored(c, msg)
        monitorTriggered ==
            shouldCheckDeleteKeyword(c, normalizedSenderId) /\ triggered
        outcome ==
            IF msg.peerId.userId # Null THEN "direct"
            ELSE IF ent = "broadcast" THEN "broadcast"
            ELSE IF IsDenied(c, normalizedChatId) THEN "denied"
            ELSE IF notifTriggered /\ c.NOTIFICATION_CHAT_ID = Null THEN "threw"
            ELSE IF notifTriggered /\ listed THEN "retracted"
            ELSE IF /\ inNotif
                    /\ normalizedSenderId # <<>>
                    /\ c.BOT_USER_ID_NORMALIZED # <<>>
                    /\ normalizedSenderId = c.BOT_USER_ID_NORMALIZED THEN "notifBot"
            ELSE IF /\ inNotif
                    /\ normalizedSenderId # <<>>
                    /\ normalizedSenderId = c.SELF_USER_ID_NORMALIZED THEN "notifSelf"
            ELSE IF ~isMonitored THEN "notMonitored"
            ELSE IF displayText = <<>> THEN "empty"
            ELSE IF monitorTriggered /\ c.NOTIFICATION_CHAT_ID = Null THEN "threw"
            ELSE IF ~shouldProcessMessage(c, normalizedSenderId, ToLower(displayText))
                 THEN "noMatch"
            ELSE IF <<normalizedChatId, msg.id>> \in DOMAIN store THEN "duplicate"
            ELSE "forwarded"
    IN  [ outcome |-> outcome,
          chat |-> normalizedChatId,
          sender |-> normalizedSenderId,
          key |-> <<normalizedChatId, msg.id>>,
          retract |->
              /\ outcome \notin {"direct", "broadcast", "denied", "threw"}
              /\ \/ notifTriggered
                 \/ /\ outcome \in {"noMatch", "duplicate", "forwarded"}
                    /\ monitorTriggered ]

(***************************************************************************)
(* utils/messageUtils.js: deletePreviousNotifications                      *)
(***************************************************************************)
\* the delete calls for one target: with a bot token one call per id; with the
\* client one bulk call and, when it fails (mode "bulkFail"), one call per id;
\* none when the chat entity cannot be resolved (mode "noEntity")
deleteCallsFor(target, ids, token, mode) ==
    LET single == [i \in 1..Len(ids) |-> [chat |-> target, ids |-> <<ids[i]>>]]
        bulk == <<[chat |-> target, ids |-> ids]>>
    IN  IF token THEN single
        ELSE IF mode = "noEntity" THEN <<>>
        ELSE IF mode = "bulkOk" THEN bulk
        ELSE bulk \o single

\* faulty variant: the record is left as it was
keptRecord(ids) == ids

\* sentNotificationMessages.set(notificationChatId, []): the record after its
\* ids were handed to the delete calls
clearedRecord(ids) == <<>>

\* the loop over the notification targets: a target with no recorded ids is
\* left alone, any other has its ids deleted and its record set to []
RECURSIVE deletePreviousNotifications(_, _, _, _)
deletePreviousNotifications(targets, sent, token, mode) ==
    IF targets = <<>> THEN [sent |-> sent, calls |-> <<>>]
    ELSE LET t == Head(targets)
             ids == IF t \in DOMAIN sent THEN sent[t] ELSE <<>>
         IN  IF ids = <<>>
             THEN deletePreviousNotifications(Tail(targets), sent, token, mode)
             ELSE LET rest == deletePreviousNotifications(
                                  Tail(targets), [sent EXCEPT ![t] = clearedRecord(ids)],
                                  token, mode)
                  IN  [ sent |-> rest.sent,
                        calls |-> deleteCallsFor(t, ids, token, mode) \o rest.calls ]

(***************************************************************************)
(* utils/telegramUtil.js: sendNotification                                 *)
(***************************************************************************)
\* faulty variant: the targets up to the first whose send fails
attemptedUntilFailure(targets, ok) ==
    LET failing == { k \in 1..Len(targets) : k \notin ok }
    IN  IF failing = {} THEN targets
        ELSE SubSeq(targets, 1, CHOOSE k \in failing : \A j \in failing : k <= j)

\* the targets a send is attempted for: chatIds.map under Promise.allSettled
\* with the bot, a for loop with a try/catch per target with the client
attemptedTargets(targets, ok) == targets

\* faulty variant: the new id replaces the record
overwriteId(old, id) == <<id>>

\* messageIds.push(id) on the target's record
appendId(old, id) == Append(old, id)

\* one send per target; the k-th target's send succeeds iff k \in ok, and a
\* successful send appends the id of the new message to the target's record;
\* dispatched lists the sends that succeeded, with the ids they returned
RECURSIVE sendToTargets(_, _, _, _, _)
sendToTargets(targets, k, sent, seq, ok) ==
    IF k > Len(targets) THEN [sent |-> sent, seq |-> seq, dispatched |-> <<>>]
    ELSE LET t == targets[k]
             old == IF t \in DOMAIN sent THEN sent[t] ELSE <<>>
         IN  IF k \in ok
             THEN LET rest == sendToTargets(
                                  targets, k + 1,
                                  [x \in DOMAIN sent \cup {t} |->
                                      IF x = t THEN appendId(old, seq) ELSE sent[x]],
                                  seq + 1, ok)
                  IN  [rest EXCEPT !.dispatched = <<[target |-> t, id |-> seq]>> \o @]
             ELSE sendToTargets(targets, k + 1, sent, seq, ok)

\* return successCount > 0
sendResultOf(dispatched) == Len(dispatched) > 0

\* the targets sendNotification sends to: none without NOTIFICATION_CHAT_ID
sendTargetsOf(c) ==
    IF c.NOTIFICATION_CHAT_ID = Null \/ c.NOTIFICATION_CHAT_ID = <<>>
    THEN <<>>
    ELSE notificationChatIdsOf(c)

(***************************************************************************)
(* core/telegram-monitor.js: the dedup sweep                               *)
(***************************************************************************)
\* faulty variant: the window taken in seconds
ttlOfSeconds(dedupWindowMinutes) == dedupWindowMinutes * 60

\* const ttl = dedupWindowMinutes * 60 * 1000
ttlOf(dedupWindowMinutes) == dedupWindowMinutes * 60 * 1000

\* faulty variant: the age taken in seconds against a ttl in milliseconds
IsExpiredEntryScaled(nowMs, ts, ttl) == nowMs - ts > ttl * 1000

\* if (now - value.ts > ttl) keysToDelete.push(key)
IsExpiredEntry(nowMs, ts, ttl) == nowMs - ts > ttl

cleanupProcessedMessages(store, nowMs, dedupWindowMinutes) ==
    [k \in {x \in DOMAIN store :
                ~IsExpiredEntry(nowMs, store[x], ttlOf(dedupWindowMinutes))}
        |-> store[k]]

(***************************************************************************)
(* Actions of the monitor                                                  *)
(***************************************************************************)
EntityOutcomes == {"group", "broadcast", "throw"}

\* only a channel can turn out to be a broadcast channel
EntityOutcomesOf(msg) ==
    IF msg.peerId.channelId = Null THEN EntityOutcomes \ {"broadcast"}
    ELSE EntityOutcomes

DeleteModes == {"bulkOk", "bulkFail", "noEntity"}

NoLast ==
    [ op |-> "none", outcome |-> "none", chat |-> <<>>, sender |-> <<>>,
      key |-> <<<<>>, 0>>, text |-> <<>>, direct |-> FALSE, oldChat |-> <<>>,
      prevAccepted |-> NoTime, tsBefore |-> NoTime, tsAfter |-> NoTime,
      sweptSince |-> FALSE, sendNotification |-> FALSE,
      sends |-> <<>>, deletes |-> <<>>,
      retract |-> FALSE, dispatched |-> <<>>, sendResult |-> FALSE ]

\* one update delivered to the event handler: handleMessage(update.message, ...),
\* the ids the backend gives to new notifications staying below maxId
HandleMessageUpTo(Msgs, maxId) ==
    \E msg \in Msgs :
     \E ent \in EntityOutcomesOf(msg) :
      \E r \in {classify(cfg, processedMessages, msg, ent)} :
        LET forwarded == r.outcome = "forwarded"
            sendTargets == IF forwarded THEN sendTargetsOf(cfg) ELSE <<>>
        IN  \E mode \in (IF r.retract /\ ~cfg.TELEGRAM_BOT_TOKEN
                         THEN DeleteModes ELSE {"none"}),
               ok \in SUBSET (1..Len(sendTargets)) :
                LET ret == IF r.retract
                           THEN deletePreviousNotifications(
                                    notificationChatIdsOf(cfg), sentNotificationMessages,
                                    cfg.TELEGRAM_BOT_TOKEN, mode)
                           ELSE [sent |-> sentNotificationMessages, calls |-> <<>>]
                    attempted == attemptedTargets(sendTargets, ok)
                    snd == sendToTargets(attempted, 1, ret.sent, notifSeq, ok)
                    store == IF forwarded
                             THEN [k \in DOMAIN processedMessages \cup {r.key} |->
                                      IF k = r.key THEN now ELSE processedMessages[k]]
                             ELSE processedMessages
                    tsOf(m) == IF r.key \in DOMAIN m THEN m[r.key] ELSE NoTime
                IN  /\ notifSeq + Cardinality(ok) - 1 <= maxId
                    /\ processedMessages' = store
                    /\ sentNotificationMessages' = snd.sent
                    /\ notifSeq' = snd.seq
                    /\ acceptedAt' =
                           IF forwarded
                           THEN [k \in DOMAIN acceptedAt \cup {r.key} |->
                                    IF k = r.key THEN now ELSE acceptedAt[k]]
                           ELSE acceptedAt
                    /\ last' =
                           [ op |-> "handleMessage", outcome |-> r.outcome,
                             chat |-> r.chat, sender |-> r.sender, key |-> r.key,
                             text |-> displayTextOf(msg),
                             direct |-> msg.peerId.userId # Null,
                             oldChat |-> oldChatIdOf(msg),
                             prevAccepted |-> tsOf(acceptedAt),
                             tsBefore |-> tsOf(processedMessages),
                             tsAfter |-> tsOf(store),
                             sweptSince |->
                                 /\ tsOf(acceptedAt) # NoTime
                                 /\ lastCleanup # NoTime
                                 /\ lastCleanup - tsOf(acceptedAt) >
                                        cfg.DEDUP_WINDOW_MINUTES * 60 * 1000,
                             sendNotification |-> forwarded,
                             sends |-> attempted, deletes |-> ret.calls,
                             retract |-> r.retract, dispatched |-> snd.dispatched,
                             sendResult |-> sendResultOf(snd.dispatched) ]
                    /\ UNCHANGED <<cfg, now, nextCleanup, lastCleanup>>
                    /\ UNCHANGED <<sweepVars, purgeVars, procVars>>

HandleMessageOf(Msgs) == HandleMessageUpTo(Msgs, MaxNotifId)

\* the setInterval timer of startCleanupInterval fires
Cleanup ==
    /\ now >= nextCleanup
    /\ processedMessages' =
           cleanupProcessedMessages(processedMessages, now, cfg.DEDUP_WINDOW_MINUTES)
    /\ nextCleanup' = nextCleanup + CLEANUP_INTERVAL_MS
    /\ lastCleanup' = now
    /\ last' = NoLast
    /\ UNCHANGED <<cfg, now, sentNotificationMessages, notifSeq, acceptedAt>>
    /\ UNCHANGED <<sweepVars, purgeVars, procVars>>

\* time passes; a due timer fires before the clock moves on
Tick ==
    /\ now < MaxTicks * TickMs
    /\ now < nextCleanup
    /\ now' = now + TickMs
    /\ last' = NoLast
    /\ UNCHANGED <<cfg, nextCleanup, lastCleanup, processedMessages,
                   sentNotificationMessages, notifSeq, acceptedAt>>
    /\ UNCHANGED <<sweepVars, purgeVars, procVars>>

(***************************************************************************)
(* core/message-deleter.js: the configuration of the periodic sweep        *)
(***************************************************************************)
DigitValue(ch) ==
    CASE ch = "0" -> 0 [] ch = "1" -> 1 [] ch = "2" -> 2 [] ch = "3" -> 3
      [] ch = "4" -> 4 [] ch = "5" -> 5 [] ch = "6" -> 6 [] ch = "7" -> 7
      [] ch = "8" -> 8 [] ch = "9" -> 9

RECURSIVE DigitsValue(_, _)
DigitsValue(s, acc) ==
    IF s = <<>> \/ Head(s) \notin DigitChars THEN acc
    ELSE DigitsValue(Tail(s), acc * 10 + DigitValue(Head(s)))

\* parseInt of an environment variable: leading white space, an optional sign
\* and the digits that follow; NaN when unset or when no digit follows
parseInt(raw) ==
    IF raw = Null THEN NaN
    ELSE LET t == TrimLeft(raw)
             signed == t # <<>> /\ Head(t) \in {"-", "+"}
             body == IF signed THEN Tail(t) ELSE t
         IN  IF body = <<>> \/ Head(body) \notin DigitChars THEN NaN
             ELSE IF signed /\ Head(t) = "-" THEN 0 - DigitsValue(body, 0)
             ELSE DigitsValue(body, 0)

Min(a, b) == IF a <= b THEN a ELSE b

\* realtime-monitor.js: the period handed to startAutoDeleteInterval
autoDeleteIntervalMs(autoDeleteMinutes) ==
    IF autoDeleteMinutes > 0 THEN Max(1, autoDeleteMinutes) * 60 * 1000 ELSE 0

\* startAutoDeleteInterval: a timer only for a positive period
startAutoDeleteInterval(intervalMs) == IF intervalMs > 0 THEN intervalMs ELSE 0

\* deleteExpiredMessages: parseInt(process.env.AUTO_DELETE_MINUTES) || 10
sweepAutoDeleteMinutes(e) ==
    OrDefault(parseInt(e.AUTO_DELETE_MINUTES), DEFAULT_AUTO_DELETE_MINUTES)

DEFAULT_DELETE_CONCURRENCY == 3
DEFAULT_DELETE_BATCH_SIZE == 100

\* Math.max(1, parseInt(process.env.DELETE_CONCURRENCY) || 3)
deleteConcurrencyOf(e) ==
    Max(1, OrDefault(parseInt(e.DELETE_CONCURRENCY), DEFAULT_DELETE_CONCURRENCY))

\* Math.max(1, parseInt(process.env.DELETE_BATCH_SIZE) || 100)
deleteBatchSizeOf(e) ==
    Max(1, OrDefault(parseInt(e.DELETE_BATCH_SIZE), DEFAULT_DELETE_BATCH_SIZE))

\* the dialogs the sweep scans: no private chat, no broadcast channel, no chat
\* whose normalized id is an entry of parseChatIds(NOT_MONITOR_CHAT_IDS)
IsGroupDialog(chat, notMonitorChatIds) ==
    /\ chat.className # "User"
    /\ ~(chat.className = "Channel" /\ chat.broadcast)
    /\ normalizeId(chat.id) # <<>>
    /\ ~Includes(notMonitorChatIds, normalizeId(chat.id))

groupDialogsOf(dialogs, notMonitorChatIds) ==
    LET keep(d) == IsGroupDialog(d, notMonitorChatIds)
    IN  SelectSeq(dialogs, keep)

(***************************************************************************)
(* utils/messageUtils.js: what the sweep may delete                        *)
(***************************************************************************)
isDeletableMessage(msg) ==
    /\ ~(msg.className = "MessageService" \/ msg.action)
    /\ (msg.message # <<>> \/ msg.media)

compareSenderId(senderId, targetId) ==
    IF senderId = Null \/ targetId = Null THEN FALSE ELSE senderId = targetId

(***************************************************************************)
(* core/message-deleter.js: the two passes of a chat's scan                *)
(***************************************************************************)
RECENT_HORIZON_SECONDS == 600
pageSize == 100
maxPages == 10

\* faulty variant: no recency horizon, every expired message of the fetch kept
getRecentMessagesNoHorizon(messages, myUserId, cutoffTime, nowSec) ==
    LET keep(msg) == /\ isDeletableMessage(msg)
                     /\ compareSenderId(msg.senderId, myUserId)
                     /\ msg.date < cutoffTime
    IN  SelectSeq(messages, keep)

\* getRecentMessagesRealtime over the newest-first result of getMessages: the
\* loop ends at the first message older than the horizon
RECURSIVE getRecentMessagesRealtime(_, _, _, _)
getRecentMessagesRealtime(messages, myUserId, cutoffTime, nowSec) ==
    IF messages = <<>> THEN <<>>
    ELSE LET msg == Head(messages)
         IN  IF msg.date < nowSec - RECENT_HORIZON_SECONDS THEN <<>>
             ELSE IF isDeletableMessage(msg)
                     /\ compareSenderId(msg.senderId, myUserId)
                     /\ msg.date < cutoffTime
             THEN <<msg>> \o getRecentMessagesRealtime(Tail(messages), myUserId,
                                                      cutoffTime, nowSec)
             ELSE getRecentMessagesRealtime(Tail(messages), myUserId,
                                            cutoffTime, nowSec)

\* faulty variant: a message sent at the cutoff taken as expired
IsExpiredFoundAtCutoff(msg, cutoffTime) ==
    isDeletableMessage(msg) /\ msg.date <= cutoffTime

\* the filter searchOlderMessages applies to a page of messages.Search
IsExpiredFound(msg, cutoffTime) ==
    isDeletableMessage(msg) /\ msg.date < cutoffTime

\* searchOlderMessages over the pages messages.Search returns, page by page
RECURSIVE searchOlderMessages(_, _, _)
searchOlderMessages(pages, pageNum, cutoffTime) ==
    IF pageNum >= maxPages \/ pages = <<>> \/ Head(pages) = <<>> THEN <<>>
    ELSE LET messages == Head(pages)
             keep(m) == IsExpiredFound(m, cutoffTime)
             expiredOnes == SelectSeq(messages, keep)
         IN  IF Len(messages) < pageSize THEN expiredOnes
             ELSE expiredOnes \o searchOlderMessages(Tail(pages), pageNum + 1,
                                                     cutoffTime)

\* faulty variant: the results of both passes concatenated, nothing dropped
mergeKeepingAll(msgs, seen) == msgs

\* the merge of both passes, the first message of every id kept
RECURSIVE mergeById(_, _)
mergeById(msgs, seen) ==
    IF msgs = <<>> THEN <<>>
    ELSE IF Head(msgs).id \in seen THEN mergeById(Tail(msgs), seen)
    ELSE <<Head(msgs)>> \o mergeById(Tail(msgs), seen \cup {Head(msgs).id})

\* faulty variant: every remaining task is started at once
batchEndAll(i, concurrency, n) == n

\* tasks.slice(i, i + concurrency) of runInBatches: the index of its last task
batchEnd(i, concurrency, n) == Min(i + concurrency, n)

\* faulty variant: a chunk runs to the end of the list
sliceToEnd(ids, i, size) == SubSeq(ids, i + 1, Len(ids))

\* messageIds.slice(i, i + DELETE_BATCH_SIZE), i counted from 0
sliceOf(ids, i, size) == SubSeq(ids, i + 1, Min(i + size, Len(ids)))

(***************************************************************************)
(* core/message-deleter.js: the state of a sweep                           *)
(***************************************************************************)
NoScan ==
    [ chat |-> Null, nowSec |-> 0, searchNow |-> 0, recent |-> <<>>, found |-> <<>>,
      expiredMessages |-> <<>>, recentOk |-> TRUE, searchOk |-> TRUE ]

NoDelete == [chat |-> Null, ids |-> <<>>]

NoSafe ==
    [ chat |-> Null, ids |-> <<>>, bulk |-> "none", singles |-> <<>>,
      returned |-> FALSE, deleted |-> 0, failed |-> 0 ]

\* no backend call issued yet
NoCalls ==
    [ getDialogs |-> FALSE,   \* client.getDialogs() was called
      fetch |-> {},           \* the chats getMessages and messages.Search were called on
      lastScan |-> NoScan,    \* the scan task that just ended: what the backend
                              \* returned to it and what it kept
      lastDelete |-> NoDelete, \* the deleteMessages call just issued
      batches |-> <<>>,       \* the batches handed to safeDeleteMessages so far
                              \* for the scan result the delete phase is at
      safe |-> NoSafe ]       \* the current or last safeDeleteMessages call: its
                              \* ids, its attempts and the counts it returned

\* the locals of deleteExpiredMessages; pc is the phase the call is in
IdleSweep ==
    [ pc |-> "idle", nowTimestamp |-> 0, cutoffTime |-> 0, groupDialogs |-> <<>>,
      next |-> 0,             \* i of runInBatches
      running |-> {},         \* the tasks of the batch not yet settled
      scanResults |-> <<>>,
      ri |-> 0,               \* scan results the delete phase is done with
      off |-> 0,              \* i of the batch loop
      k |-> 0,                \* 0, or the id the fallback of safeDeleteMessages tries next
      deleted |-> 0, failed |-> 0,
      totalDeleted |-> 0, totalFailed |-> 0 ]

\* the auto-delete timer startMonitoring sets up from AUTO_DELETE_MINUTES
deleteIntervalOf(autoDeleteMinutes) ==
    startAutoDeleteInterval(autoDeleteIntervalMs(autoDeleteMinutes))

(***************************************************************************)
(* delete-all-history.js: configuration, errors and the dialog filter      *)
(***************************************************************************)
BATCH_SIZE == 100
FETCH_LIMIT == 100
BATCH_DELAY == 1000
fetchMaxPages == 20
maxRetries == 3

\* error.message of a rate-limit error and of any other error
FloodWaitPrefix == <<"F", "L", "O", "O", "D", "_", "W", "A", "I", "T">>
FloodWait5 == FloodWaitPrefix \o <<"_", "5">>
TimeoutMessage == <<"T", "I", "M", "E", "O", "U", "T">>

\* error.message.match(/FLOOD_WAIT_(\d+)/): the digits after the first
\* "FLOOD_WAIT_" that digits follow, <<>> without a match
RECURSIVE floodWaitMatch(_)
floodWaitMatch(message) ==
    IF message = <<>> THEN <<>>
    ELSE IF HasPrefix(message, FloodWaitPrefix \o <<"_">>)
            /\ DigitRun(DropFirst(message, Len(FloodWaitPrefix) + 1)) # <<>>
    THEN DigitRun(DropFirst(message, Len(FloodWaitPrefix) + 1))
    ELSE floodWaitMatch(Tail(message))

RECURSIVE Pow2(_)
Pow2(n) == IF n = 0 THEN 1 ELSE 2 * Pow2(n - 1)

\* the first branch of handleFloodWait: a rate-limit error that names its wait
IsFloodWait(message) ==
    IsSubstring(message, FloodWaitPrefix) /\ floodWaitMatch(message) # <<>>

\* handleFloodWait(error, retries): whether the caller is to retry, and the
\* time slept before returning
handleFloodWait(message, retries) ==
    IF IsFloodWait(message)
    THEN [retry |-> TRUE, sleptMs |-> parseInt(floodWaitMatch(message)) * 1000]
    ELSE IF retries < maxRetries
    THEN [retry |-> TRUE, sleptMs |-> 1000 * Pow2(retries)]
    ELSE [retry |-> FALSE, sleptMs |-> 0]

shouldProcessChat(chat) ==
    /\ chat.className # "User"
    /\ ~(chat.className = "Channel" /\ chat.broadcast)

StrTrue == <<"t", "r", "u", "e">>

\* the mode deleteAllHistory filters the dialogs with
purgeModeOf(e) ==
    IF e.DELETE_HISTORY_MODE = StrTrue THEN "all"
    ELSE IF Len(parseChatIds(e.MONITOR_CHAT_IDS, TRUE)) > 0 THEN "limited"
    ELSE "all"

\* filterDialogs: chat.id.toString() against the parsed lists
filterDialogs(dialogs, e, mode) ==
    LET monitorChatIds == parseChatIds(e.MONITOR_CHAT_IDS, TRUE)
        notMonitorChatIds == parseChatIds(e.NOT_MONITOR_CHAT_IDS, FALSE)
        keep(d) == /\ ~Includes(notMonitorChatIds, d.id)
                   /\ shouldProcessChat(d)
                   /\ ~(mode = "limited" /\ ~Includes(monitorChatIds, d.id))
    IN  SelectSeq(dialogs, keep)

\* the filter fetchMessagesFromChat applies to a page of messages.Search
IsValidMessage(msg, currentUserId) ==
    /\ msg.id # 0
    /\ msg.senderId = currentUserId
    /\ isDeletableMessage(msg)

\* no backend call issued, and the purge before deleteAllHistory is called
NoCall == [op |-> "none", chat |-> Null, arg |-> 0, ok |-> TRUE, message |-> <<>>]

IdlePurge ==
    [ pc |-> "idle", chats |-> <<>>, ci |-> 0,
      messages |-> <<>>, offsetId |-> 0, pageNum |-> 0,
      i |-> 0, deletedCount |-> 0,
      results |-> <<>>, reported |-> FALSE, totalDeleted |-> 0, destroyed |-> FALSE,
      destroyCalls |-> 0,           \* the client.destroy() calls of this run
      lastCall |-> NoCall, sleptMs |-> 0, failures |-> 0, fetchFailed |-> FALSE,
      callParity |-> 0,
      anyError |-> FALSE,           \* a backend call of this run has failed
      answersComplete |-> TRUE,     \* every Search answered with its whole page
      held |-> 0 ]                  \* the user's messages chat 6 holds at the start

NoPurgeEnv ==
    [ MONITOR_CHAT_IDS |-> Null, NOT_MONITOR_CHAT_IDS |-> Null,
      DELETE_HISTORY_MODE |-> Null ]

(***************************************************************************)
(* The inputs of the model                                                 *)
(***************************************************************************)
PeerUser(id) == [userId |-> id, chatId |-> Null, channelId |-> Null]
PeerChat(id) == [userId |-> Null, chatId |-> id, channelId |-> Null]
PeerChannel(id) == [userId |-> Null, chatId |-> Null, channelId |-> id]

TextHi == <<"h", "i">>
TextWin == <<"r", "e", "d", " ", "W", "i", "n", "!">>
TextWinDel == <<"w", "i", "n", " ", "d", "e", "l">>
KeywordWin == <<"w", "i", "n">>
KeywordDel == <<"d", "e", "l">>

BaseEnv ==
    [ MONITOR_CHAT_IDS |-> Null, NOT_MONITOR_CHAT_IDS |-> Null,
      MONITOR_KEYWORDS |-> Null, NOTIFICATION_CHAT_ID |-> <<"3">>,
      TELEGRAM_BOT_TOKEN |-> FALSE, botInfoOk |-> FALSE,
      TARGET_USER_IDS |-> Null, USER_KEYWORDS |-> Null,
      DEDUP_WINDOW_MINUTES |-> 1, AUTO_DELETE_MINUTES |-> NaN,
      DELETE_NOTIFICATION_KEYWORDS |-> Null ]

NoProcessEnv ==
    [ AUTO_DELETE_MINUTES |-> Null, NOT_MONITOR_CHAT_IDS |-> Null,
      DELETE_CONCURRENCY |-> Null, DELETE_BATCH_SIZE |-> Null ]

InitMonitorVars(env) ==
    /\ cfg = initializeMonitoring(env)
    /\ now = 0
    /\ nextCleanup = CLEANUP_INTERVAL_MS
    /\ lastCleanup = NoTime
    /\ processedMessages = <<>>
    /\ sentNotificationMessages = <<>>
    /\ notifSeq = 1
    /\ acceptedAt = <<>>
    /\ last = NoLast

\* handleMessage invocations the event loop may hold at once, updates delivered
\* in a run, and the highest id the backend gives to a notification
MaxHandlers == 2
MaxUpdates == 3
MaxDispatchId == 2

NoMessage ==
    [ peerId |-> [userId |-> Null, chatId |-> Null, channelId |-> Null],
      fromId |-> <<>>, id |-> 0, message |-> <<>>, hasMedia |-> FALSE ]

\* the locals of a handleMessage invocation; pc is the await it is suspended at
IdleHandler ==
    [ pc |-> "idle", msg |-> NoMessage, ent |-> "none",
      key |-> <<<<>>, 0>>,    \* dedupKey
      rt |-> <<>>,            \* the notification targets the retraction has yet to
                              \* handle, the one at work first
      gen |-> 0, arr |-> <<>>, \* chatNotificationMessages: which array of the
                              \* record it is, and its ids
      i |-> 0,                \* the index of the id the delete loop is at
      targets |-> <<>>,       \* chatIds of sendNotification
      pending |-> {},         \* the targets whose send has not settled
      delivered |-> FALSE ]   \* successCount > 0

NoInflight ==
    [ handlers |-> [h \in 1..MaxHandlers |-> IdleHandler],
      updates |-> 0,          \* the updates delivered so far
      gen |-> <<>>,           \* per target, how often its record was set to a new array
      sendCalls |-> <<>>,     \* the dedup keys sendNotification was called for
      appended |-> {},        \* <<target, id>>: the ids ever pushed to a record
      deleted |-> {},         \* <<target, id>>: the ids handed to a delete call
      sendFailed |-> {},      \* the keys whose delivery failed on every target
      dropped |-> {},         \* the keys an invocation was dropped for as duplicate
      replayed |-> {},        \* those of them whose delivery had failed before
      noEntity |-> FALSE,     \* a retraction could not resolve its target's chat
      sweeps |-> <<>> ]       \* the deleteExpiredMessages runs in progress besides
                              \* the one in sweep: the chats each of them works on

\* no normalizeId call under study
NoIdCall == [raw |-> <<>>, results |-> <<>>]

NoExit == -1

\* the process before realtime-monitor.js is loaded
NoProc ==
    [ pc |-> "unloaded",            \* "unloaded", "running" or "exited"
      exitCode |-> NoExit,
      isShuttingDown |-> FALSE,
      cleanupInterval |-> FALSE,    \* the timer is set and not cleared
      heartbeatInterval |-> FALSE,
      deleteInterval |-> FALSE,
      telegramClient |-> FALSE,     \* the client was created
      startup |-> "none",           \* "none", "initializing", "started", "failed"
      stop |-> "none",              \* "none", "disconnecting", "destroying", "done"
      disconnects |-> 0,            \* telegramClient.disconnect() calls so far
      fired |-> "none",             \* the timer whose callback just started
      signals |-> 0,                \* shutdown signals and uncaught errors so far
      timersAtDisconnect |-> FALSE, \* a timer was set when disconnect was invoked
      firedAfterRelease |-> FALSE ] \* a callback started after disconnect returned

NoProcEnv ==
    [ APP_ID |-> TRUE, APP_API_HASH |-> TRUE, STRING_SESSION |-> TRUE,
      AUTO_DELETE_MINUTES |-> NaN ]

IdleProcVars ==
    /\ idCall = NoIdCall
    /\ procEnv = NoProcEnv
    /\ proc = NoProc
    /\ inflight = NoInflight

\* the monitor after startMonitoring, no sweep running
InitMonitorState(env) ==
    /\ processEnv = NoProcessEnv
    /\ IdleProcVars
    /\ purgeEnv = NoPurgeEnv
    /\ purge = IdlePurge
    /\ deleteInterval = deleteIntervalOf(AutoDeleteMinutesOf(env.AUTO_DELETE_MINUTES))
    /\ sweep = IdleSweep
    /\ calls = NoCalls
    /\ InitMonitorVars(env)

(***************************************************************************)
(* The dedup store over time: messages, the clock and the sweep            *)
(***************************************************************************)
DedupEnvs ==
    { [BaseEnv EXCEPT !.DEDUP_WINDOW_MINUTES = w, !.MONITOR_KEYWORDS = KeywordWin] :
          w \in 1..MaxWindow }

DedupMessages ==
    { [peerId |-> PeerChat(<<"5">>), fromId |-> OtherUserId, id |-> i,
       message |-> t, hasMedia |-> FALSE] :
          i \in 1..2, t \in {TextHi, TextWin} }

InitDedup == \E env \in DedupEnvs : InitMonitorState(env)

HandleMessageDedup == HandleMessageOf(DedupMessages)

NextDedup == HandleMessageDedup \/ Cleanup \/ Tick

SpecDedup == InitDedup /\ [][NextDedup]_vars

\* the same with a window that is unset, zero, negative or valid, and an
\* auto-delete time that is unset, valid or negative
WindowEnvs ==
    { [BaseEnv EXCEPT !.DEDUP_WINDOW_MINUTES = w, !.AUTO_DELETE_MINUTES = a,
                      !.MONITOR_KEYWORDS = KeywordWin] :
          w \in {NaN, 0, -1, 2}, a \in {NaN, 1, -5} }

InitWindow == \E env \in WindowEnvs : InitMonitorState(env)

SpecWindow == InitWindow /\ [][NextDedup]_vars

(***************************************************************************)
(* The classification: one instant, every kind of chat, sender and rule    *)
(***************************************************************************)
Str3 == <<"-", "1", "0", "0", "3">>
Str3and4 == <<"-", "1", "0", "0", "3", ",", "-", "4">>
Str2and4 == <<"-", "1", "0", "0", "2", ",", " ", "-", "4">>
Str100 == <<"1", "0", "0">>
StrDeny6 == <<"-", "1", "0", "0", "6">>

ClassifyEnvs ==
    { [BaseEnv EXCEPT !.MONITOR_CHAT_IDS = a,
                      !.NOTIFICATION_CHAT_ID = n,
                      !.TELEGRAM_BOT_TOKEN = b[1],
                      !.botInfoOk = b[2],
                      !.NOT_MONITOR_CHAT_IDS = StrDeny6,
                      !.MONITOR_KEYWORDS = KeywordWin,
                      !.DELETE_NOTIFICATION_KEYWORDS = KeywordDel] :
          a \in {Null, Str100, Str2and4},
          n \in {Str3, Str3and4},
          b \in {<<FALSE, FALSE>>, <<TRUE, TRUE>>} }

ClassifyMessages ==
    { [peerId |-> p, fromId |-> f, id |-> 1, message |-> t, hasMedia |-> FALSE] :
          p \in {PeerUser(OtherUserId), PeerChannel(<<"6">>),
                 PeerChannel(<<"3">>), PeerChat(<<"4">>)},
          f \in {SelfUserId, BotUserId, OtherUserId},
          t \in {TextHi, TextWin, TextWinDel} }

InitClassify == \E env \in ClassifyEnvs : InitMonitorState(env)

HandleMessageClassify == HandleMessageOf(ClassifyMessages)

NextClassify == HandleMessageClassify

SpecClassify == InitClassify /\ [][NextClassify]_vars

(***************************************************************************)
(* Retraction and dispatch: triggers, targets and the dispatch records     *)
(***************************************************************************)
MaxRetractNotifId == 2

TextDel == <<"d", "e", "l">>
StrChat4 == <<"-", "4">>
StrUser9 == <<"9">>

RetractEnvs ==
    { [BaseEnv EXCEPT !.MONITOR_CHAT_IDS = a,
                      !.NOTIFICATION_CHAT_ID = n,
                      !.TELEGRAM_BOT_TOKEN = b,
                      !.botInfoOk = b,
                      !.TARGET_USER_IDS = u,
                      !.MONITOR_KEYWORDS = KeywordWin,
                      !.DELETE_NOTIFICATION_KEYWORDS = KeywordDel] :
          a \in {Null, StrChat4},
          n \in {Str3, Str3and4},
          b \in BOOLEAN,
          u \in {Null, StrUser9} }

RetractMessages ==
    { [peerId |-> p, fromId |-> f, id |-> 1, message |-> t, hasMedia |-> FALSE] :
          p \in {PeerChannel(<<"3">>), PeerChat(<<"4">>)},
          f \in {SelfUserId, OtherUserId},
          t \in {TextWin, TextWinDel, TextDel} }

InitRetract == \E env \in RetractEnvs : InitMonitorState(env)

HandleMessageRetract == HandleMessageUpTo(RetractMessages, MaxRetractNotifId)

NextRetract == HandleMessageRetract

SpecRetract == InitRetract /\ [][NextRetract]_vars

(***************************************************************************)
(* The keyword rules and the monitored-chat test: every combination of the *)
(* allow-list, the target users and the two keyword lists                  *)
(***************************************************************************)
KeywordRed == <<"r", "e", "d">>

\* a peer that carries the id of a migrated group next to its channel id
MigratedPeer == [userId |-> Null, chatId |-> <<"4">>, channelId |-> <<"6">>]

RulesEnvs ==
    { [BaseEnv EXCEPT !.MONITOR_CHAT_IDS = a,
                      !.NOTIFICATION_CHAT_ID = Str3,
                      !.TARGET_USER_IDS = u,
                      !.USER_KEYWORDS = uk,
                      !.MONITOR_KEYWORDS = mk] :
          a \in {Null, StrChat4},
          u \in {Null, StrUser9},
          uk \in {Null, KeywordRed},
          mk \in {Null, KeywordWin} }

\* a message with text, one with media only, one with neither
RulesMessages ==
    { [peerId |-> p, fromId |-> f, id |-> 1, message |-> c[1], hasMedia |-> c[2]] :
          p \in {PeerChat(<<"4">>), MigratedPeer},
          f \in {SelfUserId, OtherUserId},
          c \in {<<TextHi, FALSE>>, <<TextWin, FALSE>>,
                 <<TextWinDel, FALSE>>, <<<<>>, TRUE>>, <<<<>>, FALSE>>} }

InitRules == \E env \in RulesEnvs : InitMonitorState(env)

HandleMessageRules == HandleMessageOf(RulesMessages)

NextRules == HandleMessageRules

SpecRules == InitRules /\ [][NextRules]_vars

(***************************************************************************)
(* Keyword matching: keywords of letters only, in either case, and         *)
(* keywords with punctuation or a blank, against texts that hold them as a *)
(* word, inside a word, or not at all                                      *)
(***************************************************************************)
KeywordWinUpper == <<"W", "I", "N">>
KeywordInBang == <<"i", "N", "!">>
KeywordDBlankW == <<"d", " ", "w">>
KeywordWinOrBang == <<"w", "i", "n", ",", " ", "h", "i", "!">>

TextWinner == <<"W", "i", "n", "n", "e", "r">>
TextTwin == <<"t", "w", "i", "n", " ", "x">>

KeywordsEnvs ==
    { [BaseEnv EXCEPT !.MONITOR_KEYWORDS = mk] :
          mk \in {KeywordWin, KeywordWinUpper, KeywordInBang, KeywordDBlankW,
                  KeywordWinOrBang} }

KeywordsMessages ==
    { [peerId |-> PeerChat(<<"4">>), fromId |-> OtherUserId, id |-> i,
       message |-> t, hasMedia |-> FALSE] :
          i \in 1..2, t \in {TextHi, TextWin, TextWinDel, TextWinner, TextTwin} }

InitKeywords == \E env \in KeywordsEnvs : InitMonitorState(env)

HandleMessageKeywords == HandleMessageOf(KeywordsMessages)

NextKeywords == HandleMessageKeywords

SpecKeywords == InitKeywords /\ [][NextKeywords]_vars

(***************************************************************************)
(* The periodic sweep: the backend it talks to                             *)
(***************************************************************************)
\* Math.floor(Date.now() / 1000) when the sweep starts
SweepNow == 100000
\* seconds that may pass before a scan task reads the clock again
MaxDrift == 1

\* client.getDialogs(): a private chat, a basic group, a supergroup and a
\* broadcast channel
Dialogs ==
    << [id |-> <<"9">>, className |-> "User", broadcast |-> FALSE],
       [id |-> <<"5">>, className |-> "Chat", broadcast |-> FALSE],
       [id |-> <<"6">>, className |-> "Channel", broadcast |-> FALSE],
       [id |-> <<"2">>, className |-> "Channel", broadcast |-> TRUE] >>

MessageOf(id, date, senderId, className, message, media) ==
    [ id |-> id, date |-> date, senderId |-> senderId, className |-> className,
      action |-> className = "MessageService", message |-> message, media |-> media ]

\* the messages the backend holds of a chat, newest first, placed around the
\* cutoff of the sweep
ChatMessages(chatId, cutoffTime) ==
    IF chatId = <<"5">>
    THEN << MessageOf(3, cutoffTime, SelfUserId, "Message", TextHi, FALSE),
            MessageOf(2, cutoffTime - 1, OtherUserId, "Message", TextHi, FALSE),
            MessageOf(1, cutoffTime - 1, SelfUserId, "Message", TextHi, FALSE),
            MessageOf(7, cutoffTime - 2, SelfUserId, "Message", TextHi, FALSE) >>
    ELSE IF chatId = <<"6">>
    THEN << MessageOf(6, cutoffTime - 1, SelfUserId, "Message", <<>>, TRUE),
            MessageOf(5, cutoffTime - 1, SelfUserId, "Message", <<>>, FALSE),
            MessageOf(4, cutoffTime - 1, SelfUserId, "MessageService", <<>>, FALSE) >>
    ELSE <<>>

RECURSIVE PickFrom(_, _, _)
PickFrom(s, mask, i) ==
    IF i > Len(s) THEN <<>>
    ELSE (IF i \in mask THEN <<s[i]>> ELSE <<>>) \o PickFrom(s, mask, i + 1)

\* what a messages.Search call may answer: any of the chat's messages, in order
SearchAnswers(messages) == { PickFrom(messages, mask, 1) : mask \in SUBSET (1..Len(messages)) }

messageIdsOf(messages) == [i \in 1..Len(messages) |-> messages[i].id]

(***************************************************************************)
(* The periodic sweep: deleteExpiredMessages step by step                  *)
(***************************************************************************)
\* the timer of startAutoDeleteInterval fires and deleteExpiredMessages runs up
\* to the first scan batch: the guard, the identity, the cutoff, the dialogs
SweepStart ==
    /\ deleteInterval > 0
    /\ sweep.pc = "idle"
    /\ \E meOk \in BOOLEAN :
         LET minutes == sweepAutoDeleteMinutes(processEnv)
             groups == groupDialogsOf(Dialogs,
                           parseChatIds(processEnv.NOT_MONITOR_CHAT_IDS, FALSE))
         IN  IF minutes <= 0 \/ ~meOk
             THEN sweep' = IdleSweep /\ calls' = NoCalls
             ELSE /\ calls' = [NoCalls EXCEPT !.getDialogs = TRUE]
                  /\ sweep' = IF groups = <<>> THEN IdleSweep
                              ELSE [IdleSweep EXCEPT
                                      !.pc = "scan",
                                      !.nowTimestamp = SweepNow,
                                      !.cutoffTime = SweepNow - minutes * 60,
                                      !.groupDialogs = groups]
    /\ UNCHANGED <<processEnv, deleteInterval>>
    /\ UNCHANGED <<monitorVars, purgeVars, procVars>>

\* runInBatches starts the next DELETE_CONCURRENCY scan tasks; each issues its
\* getMessages and its messages.Search call at once
ScanBatchStart ==
    /\ sweep.pc = "scan"
    /\ sweep.running = {}
    /\ sweep.next < Len(sweep.groupDialogs)
    /\ LET concurrency == deleteConcurrencyOf(processEnv)
           batch == (sweep.next + 1)..batchEnd(sweep.next, concurrency,
                                               Len(sweep.groupDialogs))
       IN  /\ sweep' = [sweep EXCEPT !.running = batch, !.next = @ + concurrency]
           /\ calls' = [calls EXCEPT
                          !.fetch = @ \cup {sweep.groupDialogs[i].id : i \in batch},
                          !.lastScan = NoScan]
    /\ UNCHANGED <<processEnv, deleteInterval>>
    /\ UNCHANGED <<monitorVars, purgeVars, procVars>>

\* a scan task settles: both passes answered or threw, the results are merged
\* and pushed to scanResults
ScanFinish ==
    /\ sweep.pc = "scan"
    /\ \E i \in sweep.running, recentOk \in BOOLEAN, searchOk \in BOOLEAN,
          drift \in 0..MaxDrift :
         LET chat == sweep.groupDialogs[i]
             messages == ChatMessages(chat.id, sweep.cutoffTime)
         IN  \E found \in (IF searchOk THEN SearchAnswers(messages) ELSE {<<>>}) :
               LET recent == IF recentOk THEN messages ELSE <<>>
                   recentExpired ==
                       getRecentMessagesRealtime(recent, SelfUserId, sweep.cutoffTime,
                                                 sweep.nowTimestamp + drift)
                   olderExpired == searchOlderMessages(<<found>>, 0, sweep.cutoffTime)
                   allExpiredMessages == mergeById(recentExpired \o olderExpired, {})
               IN  /\ sweep' = [sweep EXCEPT
                                  !.running = @ \ {i},
                                  !.scanResults =
                                      Append(@, [chat |-> chat.id,
                                                 expiredMessages |-> allExpiredMessages])]
                   /\ calls' = [calls EXCEPT
                                  !.lastScan = [chat |-> chat.id,
                                                nowSec |-> sweep.nowTimestamp + drift,
                                                searchNow |-> sweep.nowTimestamp,
                                                recent |-> recent, found |-> found,
                                                expiredMessages |-> allExpiredMessages,
                                                recentOk |-> recentOk,
                                                searchOk |-> searchOk]]
    /\ UNCHANGED <<processEnv, deleteInterval>>
    /\ UNCHANGED <<monitorVars, purgeVars, procVars>>

\* every batch of scan tasks has settled: the delete phase begins
DeletePhaseStart ==
    /\ sweep.pc = "scan"
    /\ sweep.running = {}
    /\ sweep.next >= Len(sweep.groupDialogs)
    /\ sweep' = [sweep EXCEPT !.pc = "delete"]
    /\ calls' = [calls EXCEPT !.lastScan = NoScan]
    /\ UNCHANGED <<processEnv, deleteInterval>>
    /\ UNCHANGED <<monitorVars, purgeVars, procVars>>

\* faulty variant: the delete phase never leaves the first scan result
firstResult == sweep.scanResults[1]

\* the scan result the delete phase works on, and the batch it is at
currentResult == sweep.scanResults[sweep.ri + 1]

currentBatch ==
    sliceOf(messageIdsOf(currentResult.expiredMessages), sweep.off,
            deleteBatchSizeOf(processEnv))

\* a scan result without messages is skipped; one whose batches are done is left
NextResult ==
    /\ sweep.pc = "delete"
    /\ sweep.k = 0
    /\ sweep.ri < Len(sweep.scanResults)
    /\ sweep.off >= Len(currentResult.expiredMessages)
    /\ sweep' = [sweep EXCEPT !.ri = @ + 1, !.off = 0]
    /\ calls' = [calls EXCEPT !.lastDelete = NoDelete, !.batches = <<>>]
    /\ UNCHANGED <<processEnv, deleteInterval>>
    /\ UNCHANGED <<monitorVars, purgeVars, procVars>>

\* safeDeleteMessages, the bulk attempt: one deleteMessages call with the batch
DeleteBulk ==
    /\ sweep.pc = "delete"
    /\ sweep.k = 0
    /\ sweep.ri < Len(sweep.scanResults)
    /\ sweep.off < Len(currentResult.expiredMessages)
    /\ \E ok \in BOOLEAN :
         LET ids == currentBatch
         IN  /\ calls' = [calls EXCEPT
                            !.lastDelete = [chat |-> currentResult.chat, ids |-> ids],
                            !.batches = Append(@, ids),
                            !.safe = [chat |-> currentResult.chat, ids |-> ids,
                                      bulk |-> IF ok THEN "ok" ELSE "failed",
                                      singles |-> <<>>, returned |-> ok,
                                      deleted |-> IF ok THEN Len(ids) ELSE 0,
                                      failed |-> 0]]
             /\ sweep' = IF ok
                         THEN [sweep EXCEPT
                                 !.off = @ + deleteBatchSizeOf(processEnv),
                                 !.totalDeleted = @ + Len(ids)]
                         ELSE [sweep EXCEPT !.k = 1, !.deleted = 0, !.failed = 0]
    /\ UNCHANGED <<processEnv, deleteInterval>>
    /\ UNCHANGED <<monitorVars, purgeVars, procVars>>

\* faulty variant: the fallback loop ends at the first failed attempt
nextAfterFailureStops(k, ok, n) == IF ok THEN k + 1 ELSE n + 1

\* the fallback loop goes on to the next id, whatever the attempt's outcome
nextSingle(k, ok, n) == k + 1

\* safeDeleteMessages, the fallback: one deleteMessages call with a single id;
\* after the last id the counts are returned and added to the totals
DeleteSingle ==
    /\ sweep.pc = "delete"
    /\ sweep.k >= 1
    /\ \E ok \in BOOLEAN :
         LET ids == currentBatch
             id == ids[sweep.k]
             deleted == IF ok THEN sweep.deleted + 1 ELSE sweep.deleted
             failed == IF ok THEN sweep.failed ELSE sweep.failed + 1
             k == nextSingle(sweep.k, ok, Len(ids))
             returns == k > Len(ids)
         IN  /\ calls' = [calls EXCEPT
                            !.lastDelete = [chat |-> currentResult.chat, ids |-> <<id>>],
                            !.safe = [@ EXCEPT
                                        !.singles = Append(@, [id |-> id, ok |-> ok]),
                                        !.returned = returns,
                                        !.deleted = IF returns THEN deleted ELSE 0,
                                        !.failed = IF returns THEN failed ELSE 0]]
             /\ sweep' = IF returns
                         THEN [sweep EXCEPT
                                 !.k = 0, !.deleted = 0, !.failed = 0,
                                 !.off = @ + deleteBatchSizeOf(processEnv),
                                 !.totalDeleted = @ + deleted,
                                 !.totalFailed = @ + failed]
                         ELSE [sweep EXCEPT !.k = k, !.deleted = deleted,
                                            !.failed = failed]
    /\ UNCHANGED <<processEnv, deleteInterval>>
    /\ UNCHANGED <<monitorVars, purgeVars, procVars>>

\* the last scan result is done: deleteExpiredMessages returns
SweepFinish ==
    /\ sweep.pc = "delete"
    /\ sweep.k = 0
    /\ sweep.ri >= Len(sweep.scanResults)
    /\ sweep' = IdleSweep
    /\ calls' = [calls EXCEPT !.lastDelete = NoDelete]
    /\ UNCHANGED <<processEnv, deleteInterval>>
    /\ UNCHANGED <<monitorVars, purgeVars, procVars>>

StrZero == <<"0">>
StrMinus5 == <<"-", "5">>
Str5 == <<"5">>
Str20 == <<"2", "0">>
Str1 == <<"1">>
StrPrefixed6 == <<"-", "1", "0", "0", "6">>

SweepEnvs ==
    { [ AUTO_DELETE_MINUTES |-> a, NOT_MONITOR_CHAT_IDS |-> n,
        DELETE_CONCURRENCY |-> c, DELETE_BATCH_SIZE |-> b ] :
          a \in {Null, StrZero, StrMinus5, Str5, Str20},
          n \in {Null, Str5, StrMinus5, StrPrefixed6},
          c \in {Null, Str1, StrZero, StrMinus5},
          b \in {Null, Str1} }

\* startMonitoring with the environment e: the timer, no sweep running yet
InitSweep ==
    /\ InitMonitorVars(BaseEnv)
    /\ IdleProcVars
    /\ purgeEnv = NoPurgeEnv
    /\ purge = IdlePurge
    /\ sweep = IdleSweep
    /\ calls = NoCalls
    /\ \E e \in SweepEnvs :
         /\ processEnv = e
         /\ deleteInterval =
                deleteIntervalOf(AutoDeleteMinutesOf(parseInt(e.AUTO_DELETE_MINUTES)))

NextSweep ==
    \/ SweepStart
    \/ ScanBatchStart
    \/ ScanFinish
    \/ DeletePhaseStart
    \/ NextResult
    \/ DeleteBulk
    \/ DeleteSingle
    \/ SweepFinish

SpecSweep == InitSweep /\ [][NextSweep]_vars

(***************************************************************************)
(* The sweep under the values DELETE_BATCH_SIZE may be configured with     *)
(***************************************************************************)
Str2 == <<"2">>
StrAbc == <<"a", "b", "c">>

ChunkEnvs ==
    { [ AUTO_DELETE_MINUTES |-> a, NOT_MONITOR_CHAT_IDS |-> Null,
        DELETE_CONCURRENCY |-> Null, DELETE_BATCH_SIZE |-> b ] :
          a \in {Str5, Str20},
          b \in {Null, Str1, Str2, StrZero, StrMinus5, StrAbc} }

InitChunks ==
    /\ InitMonitorVars(BaseEnv)
    /\ IdleProcVars
    /\ purgeEnv = NoPurgeEnv
    /\ purge = IdlePurge
    /\ sweep = IdleSweep
    /\ calls = NoCalls
    /\ \E e \in ChunkEnvs :
         /\ processEnv = e
         /\ deleteInterval =
                deleteIntervalOf(AutoDeleteMinutesOf(parseInt(e.AUTO_DELETE_MINUTES)))

SpecChunks == InitChunks /\ [][NextSweep]_vars

(***************************************************************************)
(* The auto-delete timer against a sweep that outlasts its period: the     *)
(* backend calls of a sweep take as long as they take, the timer fires     *)
(* every deleteInterval ms                                                 *)
(***************************************************************************)
\* the runs a tick may add to the one in progress
MaxOverlap == 2

\* the timer of startAutoDeleteInterval fires while the run of an earlier tick
\* is scanning or deleting: the callback calls deleteExpiredMessages, which runs
\* up to its first scan batch like any other run
SweepStartDuringSweep ==
    /\ deleteInterval > 0
    /\ sweep.pc # "idle"
    /\ Len(inflight.sweeps) < MaxOverlap
    /\ \E meOk \in BOOLEAN :
         LET minutes == sweepAutoDeleteMinutes(processEnv)
             groups == groupDialogsOf(Dialogs,
                           parseChatIds(processEnv.NOT_MONITOR_CHAT_IDS, FALSE))
             chats == {groups[i].id : i \in 1..Len(groups)}
         IN  /\ minutes > 0
             /\ meOk
             /\ groups # <<>>
             /\ inflight' = [inflight EXCEPT !.sweeps = Append(@, chats)]
    /\ UNCHANGED <<monitorVars, sweepVars, purgeVars, idCall, procEnv, proc>>

\* a run started during another one comes to its end (its scan and delete
\* steps, those of any run, are not told apart here)
OverlappingSweepEnds ==
    /\ inflight.sweeps # <<>>
    /\ inflight' = [inflight EXCEPT !.sweeps = Tail(@)]
    /\ UNCHANGED <<monitorVars, sweepVars, purgeVars, idCall, procEnv, proc>>

NextOverlap ==
    \/ NextSweep
    \/ SweepStartDuringSweep
    \/ OverlappingSweepEnds

SpecOverlap == InitChunks /\ [][NextOverlap]_vars

(***************************************************************************)
(* handleMessage invocations that overlap: each runs from one await to the  *)
(* next in one step, the stores shared between them                        *)
(***************************************************************************)
StrTwoTargets == <<"-", "1", "0", "0", "3", ",", "8">>

InterleaveEnvs ==
    { [BaseEnv EXCEPT !.NOTIFICATION_CHAT_ID = n,
                      !.TELEGRAM_BOT_TOKEN = b,
                      !.botInfoOk = b,
                      !.MONITOR_KEYWORDS = KeywordWin,
                      !.DELETE_NOTIFICATION_KEYWORDS = KeywordDel] :
          n \in {Str3, StrTwoTargets}, b \in BOOLEAN }

\* updates of group 4: a message and its edit carry the same id
InterleaveMessages ==
    { [peerId |-> PeerChat(<<"4">>), fromId |-> OtherUserId, id |-> n, message |-> t,
       hasMedia |-> FALSE] :
          n \in 1..2, t \in {TextWin, TextWinDel} }

InitInterleave == \E env \in InterleaveEnvs : InitMonitorState(env)

\* the DispatchRecord of target t in the map sent: [] for a missing key
recordOf(sent, t) == IF t \in DOMAIN sent THEN sent[t] ELSE <<>>

genOf(gen, t) == IF t \in DOMAIN gen THEN gen[t] ELSE 0

\* sentNotificationMessages.set(t, []): a new, empty array in place of the old
setEmpty(sent, t) ==
    [x \in DOMAIN sent \cup {t} |->
        IF x = t THEN clearedRecord(recordOf(sent, t)) ELSE sent[x]]

newArray(gen, t) ==
    [x \in DOMAIN gen \cup {t} |-> IF x = t THEN genOf(gen, t) + 1 ELSE gen[x]]

\* deletePreviousNotifications returns at once for a target without ids
RECURSIVE skipEmpty(_, _)
skipEmpty(targets, sent) ==
    IF targets = <<>> THEN <<>>
    ELSE IF recordOf(sent, Head(targets)) = <<>> THEN skipEmpty(Tail(targets), sent)
    ELSE targets

\* faulty variant: the key is not in the store when sendNotification is awaited
insertedAfterSend(store, key, ts) == store

\* processedMessages.set(dedupKey, {ts: Date.now(), text}), right after the
\* has(dedupKey) test
insertedAtCheck(store, key, ts) ==
    [k \in DOMAIN store \cup {key} |-> IF k = key THEN ts ELSE store[k]]

\* faulty variant: the entry of a message that reached no target is removed
removedOnFailure(store, key, delivered) ==
    IF delivered THEN store ELSE [k \in DOMAIN store \ {key} |-> store[k]]

\* handleMessage after sendNotification has returned: the store is left alone
afterDelivery(store, key, delivered) == store

\* invocation h, with locals hd, goes on from the loop over the notification
\* targets of the retraction (hd.rt, empty when there is none or it is over) to
\* its next await: a delete call of the next target that has ids, or, past the
\* loop, the keyword rules, the dedup test and sendNotification
Resume(h, hd, sent, fl) ==
    LET rt == skipEmpty(hd.rt, sent)
        put(rec) == [fl EXCEPT !.handlers[h] = rec]
    IN  IF rt # <<>>
        THEN LET t == Head(rt)
                 ids == recordOf(sent, t)
                 at == [hd EXCEPT !.rt = rt, !.gen = genOf(fl.gen, t), !.arr = ids]
             IN  /\ sentNotificationMessages' = sent
                 /\ processedMessages' = processedMessages
                 /\ inflight' =
                        IF cfg.TELEGRAM_BOT_TOKEN
                        THEN [put([at EXCEPT !.pc = "rdelete", !.i = 1])
                                EXCEPT !.deleted = @ \cup {<<t, ids[1]>>}]
                        ELSE put([at EXCEPT !.pc = "rentity"])
        ELSE \E r \in {classify(cfg, processedMessages, hd.msg, hd.ent)} :
               IF r.outcome = "forwarded"
               THEN LET targets == sendTargetsOf(cfg)
                        called == [fl EXCEPT !.sendCalls = Append(@, r.key)]
                    IN  /\ processedMessages' =
                               insertedAtCheck(processedMessages, r.key, now)
                        /\ sentNotificationMessages' = sent
                        /\ inflight' =
                               IF targets = <<>>
                               THEN [called EXCEPT !.handlers[h] = IdleHandler,
                                                   !.sendFailed = @ \cup {r.key}]
                               ELSE [called EXCEPT
                                       !.handlers[h] =
                                           [hd EXCEPT !.pc = "sending", !.key = r.key,
                                                      !.rt = <<>>, !.arr = <<>>,
                                                      !.targets = targets,
                                                      !.pending = 1..Len(targets),
                                                      !.delivered = FALSE]]
               ELSE /\ processedMessages' = processedMessages
                    /\ sentNotificationMessages' = sent
                    /\ inflight' =
                           [put(IdleHandler) EXCEPT
                              !.dropped = IF r.outcome = "duplicate"
                                          THEN @ \cup {r.key} ELSE @,
                              !.replayed = IF /\ r.outcome = "duplicate"
                                              /\ r.key \in fl.sendFailed
                                           THEN @ \cup {r.key} ELSE @]

\* an update reaches the event handler: handleMessage runs up to
\* await client.getEntity(message.peerId)
HStart(h) ==
    /\ inflight.handlers[h].pc = "idle"
    /\ inflight.updates < MaxUpdates
    /\ \E msg \in InterleaveMessages :
         inflight' = [inflight EXCEPT
                        !.handlers[h] = [IdleHandler EXCEPT !.pc = "entity", !.msg = msg],
                        !.updates = @ + 1]
    /\ UNCHANGED <<cfg, now, nextCleanup, lastCleanup, processedMessages,
                   sentNotificationMessages, notifSeq, acceptedAt, last>>
    /\ UNCHANGED <<sweepVars, purgeVars, idCall, procEnv, proc>>

\* getEntity has answered: the chat tests, and the retraction if the text
\* triggers it
HEntity(h) ==
    /\ inflight.handlers[h].pc = "entity"
    /\ \E ent \in EntityOutcomesOf(inflight.handlers[h].msg) :
         \E r \in {classify(cfg, processedMessages, inflight.handlers[h].msg, ent)} :
           Resume(h, [inflight.handlers[h] EXCEPT
                        !.ent = ent,
                        !.rt = IF r.retract THEN notificationChatIdsOf(cfg) ELSE <<>>],
                  sentNotificationMessages, inflight)
    /\ UNCHANGED <<cfg, now, nextCleanup, lastCleanup, notifSeq, acceptedAt, last>>
    /\ UNCHANGED <<sweepVars, purgeVars, idCall, procEnv, proc>>

\* deletePreviousNotifications without a bot token: getEntity of the target has
\* answered; with the entity the bulk deleteMessages call goes out with the ids
\* of the array, without it the error is caught and the record set to []
REntity(h) ==
    /\ inflight.handlers[h].pc = "rentity"
    /\ \E found \in BOOLEAN :
         LET hd == inflight.handlers[h]
             t == Head(hd.rt)
         IN  IF found
             THEN /\ inflight' =
                        [inflight EXCEPT
                           !.handlers[h].pc = "rbulk",
                           !.deleted = @ \cup {<<t, hd.arr[k]>> : k \in 1..Len(hd.arr)}]
                  /\ UNCHANGED <<processedMessages, sentNotificationMessages>>
             ELSE Resume(h, [hd EXCEPT !.rt = Tail(@), !.arr = <<>>, !.i = 0],
                         setEmpty(sentNotificationMessages, t),
                         [inflight EXCEPT !.gen = newArray(@, t), !.noEntity = TRUE])
    /\ UNCHANGED <<cfg, now, nextCleanup, lastCleanup, notifSeq, acceptedAt, last>>
    /\ UNCHANGED <<sweepVars, purgeVars, idCall, procEnv, proc>>

\* the bulk deleteMessages call has settled: the record is set to [], or the
\* loop over the array starts with a call for its first id
RBulk(h) ==
    /\ inflight.handlers[h].pc = "rbulk"
    /\ \E ok \in BOOLEAN :
         LET hd == inflight.handlers[h]
             t == Head(hd.rt)
         IN  IF ok
             THEN Resume(h, [hd EXCEPT !.rt = Tail(@), !.arr = <<>>, !.i = 0],
                         setEmpty(sentNotificationMessages, t),
                         [inflight EXCEPT !.gen = newArray(@, t)])
             ELSE /\ inflight' =
                        [inflight EXCEPT
                           !.handlers[h] = [hd EXCEPT !.pc = "rdelete", !.i = 1],
                           !.deleted = @ \cup {<<t, hd.arr[1]>>}]
                  /\ UNCHANGED <<processedMessages, sentNotificationMessages>>
    /\ UNCHANGED <<cfg, now, nextCleanup, lastCleanup, notifSeq, acceptedAt, last>>
    /\ UNCHANGED <<sweepVars, purgeVars, idCall, procEnv, proc>>

\* a delete call for one id has settled: the loop goes on over the array as it
\* is now, and past its end the record is set to []
RDelete(h) ==
    /\ inflight.handlers[h].pc = "rdelete"
    /\ LET hd == inflight.handlers[h]
           t == Head(hd.rt)
       IN  IF hd.i < Len(hd.arr)
           THEN /\ inflight' =
                      [inflight EXCEPT
                         !.handlers[h].i = @ + 1,
                         !.deleted = @ \cup {<<t, hd.arr[hd.i + 1]>>}]
                /\ UNCHANGED <<processedMessages, sentNotificationMessages>>
           ELSE Resume(h, [hd EXCEPT !.rt = Tail(@), !.arr = <<>>, !.i = 0],
                       setEmpty(sentNotificationMessages, t),
                       [inflight EXCEPT !.gen = newArray(@, t)])
    /\ UNCHANGED <<cfg, now, nextCleanup, lastCleanup, notifSeq, acceptedAt, last>>
    /\ UNCHANGED <<sweepVars, purgeVars, idCall, procEnv, proc>>

\* the targets whose send may settle next: with a bot token all sends are out at
\* once (Promise.allSettled), with the client one target follows the other
settling(hd) ==
    IF cfg.TELEGRAM_BOT_TOKEN THEN hd.pending
    ELSE {k \in hd.pending : \A j \in hd.pending : k <= j}

\* sendNotification: the send to a target has settled; the id of a message
\* that was sent is pushed to the array the target's record holds, which an
\* invocation in deletePreviousNotifications may be looping over
HSend(h) ==
    /\ inflight.handlers[h].pc = "sending"
    /\ \E k \in settling(inflight.handlers[h]), ok \in BOOLEAN :
         LET hd == inflight.handlers[h]
             t == hd.targets[k]
             pend == hd.pending \ {k}
             delivered == hd.delivered \/ ok
             sees(o) == /\ o.pc \in {"rentity", "rbulk", "rdelete"}
                        /\ Head(o.rt) = t
                        /\ o.gen = genOf(inflight.gen, t)
             handlers ==
                 [g \in 1..MaxHandlers |->
                     IF g = h
                     THEN IF pend = {} THEN IdleHandler
                          ELSE [hd EXCEPT !.pending = pend, !.delivered = delivered]
                     ELSE IF ok /\ sees(inflight.handlers[g])
                     THEN [inflight.handlers[g] EXCEPT !.arr = appendId(@, notifSeq)]
                     ELSE inflight.handlers[g]]
         IN  /\ ~ok \/ notifSeq <= MaxDispatchId
             /\ sentNotificationMessages' =
                    IF ok
                    THEN [x \in DOMAIN sentNotificationMessages \cup {t} |->
                             IF x = t
                             THEN appendId(recordOf(sentNotificationMessages, t), notifSeq)
                             ELSE sentNotificationMessages[x]]
                    ELSE sentNotificationMessages
             /\ notifSeq' = IF ok THEN notifSeq + 1 ELSE notifSeq
             /\ processedMessages' =
                    IF pend = {} THEN afterDelivery(processedMessages, hd.key, delivered)
                    ELSE processedMessages
             /\ inflight' =
                    [inflight EXCEPT
                       !.handlers = handlers,
                       !.appended = IF ok THEN @ \cup {<<t, notifSeq>>} ELSE @,
                       !.sendFailed = IF pend = {} /\ ~delivered
                                      THEN @ \cup {hd.key} ELSE @]
    /\ UNCHANGED <<cfg, now, nextCleanup, lastCleanup, acceptedAt, last>>
    /\ UNCHANGED <<sweepVars, purgeVars, idCall, procEnv, proc>>

NextInterleave ==
    \/ \E h \in 1..MaxHandlers : HStart(h)
    \/ \E h \in 1..MaxHandlers : HEntity(h)
    \/ \E h \in 1..MaxHandlers : REntity(h)
    \/ \E h \in 1..MaxHandlers : RBulk(h)
    \/ \E h \in 1..MaxHandlers : RDelete(h)
    \/ \E h \in 1..MaxHandlers : HSend(h)

SpecInterleave == InitInterleave /\ [][NextInterleave]_vars

(***************************************************************************)
(* The recent pass alone, ten minutes of auto-delete time: what it returns *)
(* of a fetch whose messages lie around the cutoff                         *)
(***************************************************************************)
MaxRecentLen == 3

\* seconds before the start of the sweep at which the messages were sent
RecentAges == {599, 600, 601}

\* the results of getMessages: up to MaxRecentLen text messages, newest first
RecentFetches ==
    UNION { { [ i \in 1..n |->
                  MessageOf(n + 1 - i, SweepNow - age[i], from[i], "Message",
                            TextHi, FALSE) ] :
                age \in { a \in [1..n -> RecentAges] :
                            \A i \in 1..(n - 1) : a[i] <= a[i + 1] },
                from \in [1..n -> {SelfUserId, OtherUserId}] } :
            n \in 1..MaxRecentLen }

InitRecent ==
    /\ InitMonitorVars(BaseEnv)
    /\ IdleProcVars
    /\ processEnv = NoProcessEnv
    /\ deleteInterval = deleteIntervalOf(AutoDeleteMinutesOf(BaseEnv.AUTO_DELETE_MINUTES))
    /\ purgeEnv = NoPurgeEnv
    /\ purge = IdlePurge
    /\ sweep = [IdleSweep EXCEPT
                  !.nowTimestamp = SweepNow,
                  !.cutoffTime = SweepNow - DEFAULT_AUTO_DELETE_MINUTES * 60]
    /\ \E recent \in RecentFetches :
         calls = [NoCalls EXCEPT !.lastScan = [NoScan EXCEPT !.recent = recent]]

\* getRecentMessagesRealtime runs on the fetch, its clock at most MaxDrift
\* seconds after the start of the sweep
RecentPass ==
    /\ calls.lastScan.chat = Null
    /\ \E drift \in 0..MaxDrift :
         calls' = [calls EXCEPT
                     !.lastScan =
                         [@ EXCEPT !.chat = <<"5">>,
                                   !.nowSec = sweep.nowTimestamp + drift,
                                   !.expiredMessages =
                                       getRecentMessagesRealtime(
                                           calls.lastScan.recent, SelfUserId,
                                           sweep.cutoffTime,
                                           sweep.nowTimestamp + drift)]]
    /\ UNCHANGED <<processEnv, deleteInterval, sweep>>
    /\ UNCHANGED <<monitorVars, purgeVars, procVars>>

NextRecent == RecentPass

SpecRecent == InitRecent /\ [][NextRecent]_vars

(***************************************************************************)
(* Both passes of a chat's scan, five minutes of auto-delete time, on      *)
(* messages sent around the ten-minute horizon                             *)
(***************************************************************************)
MaxCoverLen == 2
\* seconds a backend call of the scan may take at most
MaxScanDelay == 2
CoverAutoDeleteMinutes == 5

CoverAges == {598, 599, 600, 601, 602}

\* what the chat holds, newest first
CoverChats ==
    UNION { { [ i \in 1..n |->
                  MessageOf(n + 1 - i, SweepNow - age[i], from[i], "Message",
                            TextHi, FALSE) ] :
                age \in { a \in [1..n -> CoverAges] :
                            \A i \in 1..(n - 1) : a[i] <= a[i + 1] },
                from \in [1..n -> {SelfUserId, OtherUserId}] } :
            n \in 1..MaxCoverLen }

\* searchMaxDate = Math.floor(Date.now() / 1000) - 600
searchMaxDate(nowSec) == nowSec - RECENT_HORIZON_SECONDS

\* messages.Search with fromId, minDate 0 and maxDate: the user's messages up to
\* maxDate; whether a message sent at maxDate itself is among them is the
\* backend's choice
SearchUpTo(messages, userId, maxDate, inclusive) ==
    LET match(m) == /\ compareSenderId(m.senderId, userId)
                    /\ IF inclusive THEN m.date <= maxDate ELSE m.date < maxDate
    IN  SelectSeq(messages, match)

InitCover ==
    /\ InitMonitorVars(BaseEnv)
    /\ IdleProcVars
    /\ processEnv = NoProcessEnv
    /\ deleteInterval = deleteIntervalOf(AutoDeleteMinutesOf(BaseEnv.AUTO_DELETE_MINUTES))
    /\ purgeEnv = NoPurgeEnv
    /\ purge = IdlePurge
    /\ sweep = [IdleSweep EXCEPT
                  !.pc = "scan",
                  !.nowTimestamp = SweepNow,
                  !.cutoffTime = SweepNow - CoverAutoDeleteMinutes * 60]
    /\ \E held \in CoverChats :
         calls = [NoCalls EXCEPT !.lastScan = [NoScan EXCEPT !.recent = held]]

\* a scan task of deleteExpiredMessages: searchOlderMessages reads the clock when
\* the task starts, getRecentMessagesRealtime when getMessages has answered;
\* both results are merged by id
CoverScan ==
    /\ calls.lastScan.chat = Null
    /\ \E started \in 0..MaxScanDelay, answered \in 0..MaxScanDelay,
          inclusive \in BOOLEAN :
         LET messages == calls.lastScan.recent
             searchNow == sweep.nowTimestamp + started
             nowSec == searchNow + answered
             found == SearchUpTo(messages, SelfUserId, searchMaxDate(searchNow),
                                 inclusive)
             recentExpired ==
                 getRecentMessagesRealtime(messages, SelfUserId, sweep.cutoffTime,
                                           nowSec)
             olderExpired == searchOlderMessages(<<found>>, 0, sweep.cutoffTime)
         IN  calls' = [calls EXCEPT
                         !.lastScan =
                             [@ EXCEPT !.chat = <<"5">>,
                                       !.nowSec = nowSec,
                                       !.searchNow = searchNow,
                                       !.found = found,
                                       !.expiredMessages =
                                           mergeById(recentExpired \o olderExpired,
                                                     {})]]
    /\ UNCHANGED <<processEnv, deleteInterval, sweep>>
    /\ UNCHANGED <<monitorVars, purgeVars, procVars>>

NextCover == CoverScan

SpecCover == InitCover /\ [][NextCover]_vars

(***************************************************************************)
(* utils/formatUtils.js: normalizeId applied to raw ids, and again         *)
(***************************************************************************)
MaxIdDigits == 4
MaxNormalizeCalls == 2

IdDigitChars == {"0", "1", "5"}

\* the runs of one to MaxIdDigits digits
IdDigitRuns ==
    UNION { [1..n -> IdDigitChars] : n \in 1..MaxIdDigits }

\* raw ids: an optional '-' sign, an optional 100 prefix, a run of digits
RawIds ==
    { sign \o prefix \o digits :
          sign \in {<<>>, <<"-">>},
          prefix \in {<<>>, <<"1", "0", "0">>},
          digits \in IdDigitRuns }

InitNormalize ==
    /\ InitMonitorVars(BaseEnv)
    /\ processEnv = NoProcessEnv
    /\ deleteInterval = deleteIntervalOf(AutoDeleteMinutesOf(BaseEnv.AUTO_DELETE_MINUTES))
    /\ sweep = IdleSweep
    /\ calls = NoCalls
    /\ purgeEnv = NoPurgeEnv
    /\ purge = IdlePurge
    /\ procEnv = NoProcEnv
    /\ proc = NoProc
    /\ inflight = NoInflight
    /\ \E raw \in RawIds : idCall = [raw |-> raw, results |-> <<>>]

\* normalizeId called on the raw id, then on the result of the call before
Normalize ==
    /\ Len(idCall.results) < MaxNormalizeCalls
    /\ idCall.raw # <<>>
    /\ idCall' = [idCall EXCEPT !.results =
                      Append(@, normalizeId(IF @ = <<>> THEN idCall.raw
                                            ELSE @[Len(@)]))]
    /\ UNCHANGED <<monitorVars, sweepVars, purgeVars, procEnv, proc, inflight>>

NextNormalize == Normalize

SpecNormalize == InitNormalize /\ [][NextNormalize]_vars

(***************************************************************************)
(* realtime-monitor.js: the life of the monitor process, from the check of *)
(* the configuration to process.exit                                       *)
(***************************************************************************)
MaxSignals == 2

ProcEnvs ==
    [ APP_ID : BOOLEAN, APP_API_HASH : BOOLEAN, STRING_SESSION : BOOLEAN,
      AUTO_DELETE_MINUTES : {NaN, 10, -5} ]

InitProcess ==
    /\ InitMonitorVars(BaseEnv)
    /\ processEnv = NoProcessEnv
    /\ deleteInterval = deleteIntervalOf(AutoDeleteMinutesOf(BaseEnv.AUTO_DELETE_MINUTES))
    /\ sweep = IdleSweep
    /\ calls = NoCalls
    /\ purgeEnv = NoPurgeEnv
    /\ purge = IdlePurge
    /\ inflight = NoInflight
    /\ idCall = NoIdCall
    /\ procEnv \in ProcEnvs
    /\ proc = NoProc

\* process.exit(code)
exitWith(p, code) == [p EXCEPT !.pc = "exited", !.exitCode = code]

\* stopMonitoring up to its first await: the guard, the flag, the three
\* clearInterval calls, then disconnect() on the client, or process.exit(0)
\* when no client was created
stopMonitoring(p) ==
    IF p.isShuttingDown THEN p
    ELSE LET cleared == [p EXCEPT !.isShuttingDown = TRUE,
                                  !.cleanupInterval = FALSE,
                                  !.heartbeatInterval = FALSE,
                                  !.deleteInterval = FALSE]
         IN  IF cleared.telegramClient
             THEN [cleared EXCEPT !.stop = "disconnecting",
                                  !.disconnects = @ + 1,
                                  !.timersAtDisconnect =
                                      \/ cleared.cleanupInterval
                                      \/ cleared.heartbeatInterval
                                      \/ cleared.deleteInterval]
             ELSE exitWith([cleared EXCEPT !.stop = "done"], 0)

\* the module is loaded: the check of the required variables, the handlers,
\* and startMonitoring up to its await of initializeMonitoring
ProcLoad ==
    /\ proc.pc = "unloaded"
    /\ proc' =
         IF ~(procEnv.APP_ID /\ procEnv.APP_API_HASH /\ procEnv.STRING_SESSION)
         THEN exitWith(proc, 1)
         ELSE [proc EXCEPT !.pc = "running", !.telegramClient = TRUE,
                           !.startup = "initializing"]
    /\ UNCHANGED <<monitorVars, sweepVars, purgeVars, idCall, procEnv, inflight>>

\* initializeMonitoring settles: the three timers are set, or the catch of
\* startMonitoring calls stopMonitoring
InitSettles ==
    /\ proc.pc = "running"
    /\ proc.startup = "initializing"
    /\ \E ok \in BOOLEAN :
         proc' =
           IF ok
           THEN [proc EXCEPT
                   !.startup = "started",
                   !.cleanupInterval = TRUE,
                   !.heartbeatInterval = TRUE,
                   !.deleteInterval =
                       deleteIntervalOf(AutoDeleteMinutesOf(procEnv.AUTO_DELETE_MINUTES)) > 0]
           ELSE stopMonitoring([proc EXCEPT !.startup = "failed"])
    /\ UNCHANGED <<monitorVars, sweepVars, purgeVars, idCall, procEnv, inflight>>

\* SIGINT, SIGTERM or SIGQUIT, an uncaught exception or an unhandled
\* rejection: the handler calls stopMonitoring and does not wait for it
Signal ==
    /\ proc.pc = "running"
    /\ proc.signals < MaxSignals
    /\ proc' = stopMonitoring([proc EXCEPT !.signals = @ + 1])
    /\ UNCHANGED <<monitorVars, sweepVars, purgeVars, idCall, procEnv, inflight>>

\* telegramClient.disconnect() settles, either way: destroy() is called
DisconnectSettles ==
    /\ proc.pc = "running"
    /\ proc.stop = "disconnecting"
    /\ proc' = [proc EXCEPT !.stop = "destroying"]
    /\ UNCHANGED <<monitorVars, sweepVars, purgeVars, idCall, procEnv, inflight>>

\* telegramClient.destroy() settles, either way: process.exit(0)
DestroySettles ==
    /\ proc.pc = "running"
    /\ proc.stop = "destroying"
    /\ proc' = exitWith([proc EXCEPT !.stop = "done"], 0)
    /\ UNCHANGED <<monitorVars, sweepVars, purgeVars, idCall, procEnv, inflight>>

\* the callback of a timer that is set starts
TimerFires ==
    /\ proc.pc = "running"
    /\ \E t \in { x \in {"cleanupInterval", "heartbeatInterval", "deleteInterval"} :
                    proc[x] } :
         proc' = [proc EXCEPT !.fired = t,
                              !.firedAfterRelease = @ \/ proc.stop = "destroying"]
    /\ UNCHANGED <<monitorVars, sweepVars, purgeVars, idCall, procEnv, inflight>>

NextProcess ==
    \/ ProcLoad
    \/ InitSettles
    \/ Signal
    \/ DisconnectSettles
    \/ DestroySettles
    \/ TimerFires

SpecProcess == InitProcess /\ [][NextProcess]_vars

(***************************************************************************)
(* delete-all-history.js: the one-shot purge                               *)
(***************************************************************************)
BigChatSize == 101
MaxFailures == 5

\* one message more than fetchMessagesFromChat reads of a chat
HugeChatSize == 2001

\* the messages the backend holds of a chat for the purge, newest first:
\* chat 6 holds more of the user's messages than one page and one batch
PurgeMessages(chatId) ==
    IF chatId = <<"6">>
    THEN [ k \in 1..purge.held |->
             MessageOf(purge.held + 100 - k, SweepNow - k, SelfUserId, "Message",
                       TextHi, FALSE) ]
    ELSE ChatMessages(chatId, SweepNow)

\* the messages a Search with this offsetId ranges over
SearchRange(chatId, offsetId) ==
    LET older(m) == offsetId = 0 \/ m.id < offsetId
    IN  SelectSeq(PurgeMessages(chatId), older)

\* the whole page of a Search: the first FETCH_LIMIT messages of its range
fullPage(chatId, offsetId) ==
    SubSeq(SearchRange(chatId, offsetId), 1,
           Min(FETCH_LIMIT, Len(SearchRange(chatId, offsetId))))

\* what one messages.Search call of the purge may answer, limit FETCH_LIMIT
PurgeSearchAnswers(chatId, offsetId) ==
    LET range == SearchRange(chatId, offsetId)
    IN  IF Len(range) > 4
        THEN { SubSeq(range, 1, Min(FETCH_LIMIT, Len(range))) }
        ELSE SearchAnswers(range)

\* what a backend call may do: succeed, or raise one of the two errors
CallOutcomes ==
    { [ok |-> TRUE, message |-> <<>>],
      [ok |-> FALSE, message |-> FloodWait5],
      [ok |-> FALSE, message |-> TimeoutMessage] }

PurgeEnvs ==
    [ MONITOR_CHAT_IDS : {Null, Str5, StrChat4, Str3},
      NOT_MONITOR_CHAT_IDS : {Null, StrPrefixed6},
      DELETE_HISTORY_MODE : {Null, StrTrue} ]

currentChat(p) == p.chats[p.ci]

\* the backend call the purge issues next
CurrentCall(p) ==
    IF p.pc = "fetching" THEN [op |-> "search", chat |-> currentChat(p).id, arg |-> p.offsetId]
    ELSE IF p.pc = "deleting" THEN [op |-> "delete", chat |-> currentChat(p).id, arg |-> p.i]
    ELSE [op |-> "none", chat |-> Null, arg |-> 0]

callOf(p, out) ==
    [ op |-> CurrentCall(p).op, chat |-> CurrentCall(p).chat, arg |-> CurrentCall(p).arg,
      ok |-> out.ok, message |-> out.message ]

\* deleteAllHistory's loop: processChat returned result for chat ci
nextChat(p, messageCount, error) ==
    LET results == Append(p.results,
                          [ chat |-> currentChat(p).id, messageCount |-> messageCount,
                            error |-> error, fetchFailed |-> p.fetchFailed,
                            deletedCount |-> p.deletedCount ])
    IN  [ p EXCEPT !.results = results,
                   !.pc = IF p.ci < Len(p.chats) THEN "fetching" ELSE "reporting",
                   !.ci = IF p.ci < Len(p.chats) THEN p.ci + 1 ELSE p.ci,
                   !.messages = <<>>, !.offsetId = 0, !.pageNum = 0,
                   !.i = 0, !.deletedCount = 0, !.failures = 0, !.fetchFailed = FALSE ]

\* processChat after fetchMessagesFromChat returned userMessages
afterFetch(p) ==
    IF Len(p.messages) = 0 THEN nextChat(p, 0, FALSE)
    ELSE [ p EXCEPT !.pc = "deleting", !.i = 0, !.deletedCount = 0, !.failures = 0 ]

\* deleteMessagesInBatches after the loop index moved to i
afterBatch(p) ==
    IF p.i < Len(p.messages) THEN p ELSE nextChat(p, Len(p.messages), FALSE)

InitPurge ==
    /\ InitMonitorVars(BaseEnv)
    /\ IdleProcVars
    /\ processEnv = NoProcessEnv
    /\ deleteInterval = deleteIntervalOf(AutoDeleteMinutesOf(BaseEnv.AUTO_DELETE_MINUTES))
    /\ sweep = IdleSweep
    /\ calls = NoCalls
    /\ purgeEnv \in PurgeEnvs
    /\ purge = [IdlePurge EXCEPT !.held = BigChatSize]

\* faulty variant: the early return of a run without chats skips the finally block
enumeratedNoFinally(p, startOk, chats) ==
    IF startOk /\ Len(chats) > 0
    THEN [ p EXCEPT !.pc = "fetching", !.chats = chats, !.ci = 1 ]
    ELSE IF startOk THEN [ p EXCEPT !.pc = "done" ]
    ELSE [ p EXCEPT !.pc = "closing", !.anyError = TRUE ]

\* where deleteAllHistory stands after connecting and enumerating: in the loop
\* over the chats, or, after an error or the early return, in the finally block
enumerated(p, startOk, chats) ==
    IF startOk /\ Len(chats) > 0
    THEN [ p EXCEPT !.pc = "fetching", !.chats = chats, !.ci = 1 ]
    ELSE [ p EXCEPT !.pc = "closing", !.anyError = ~startOk ]

\* deleteAllHistory up to the loop: start the client, getMe, getDialogs, filter
PurgeStartOf(StartOutcomes) ==
    /\ purge.pc = "idle"
    /\ \E startOk \in StartOutcomes :
         \E chats \in { filterDialogs(Dialogs, purgeEnv, purgeModeOf(purgeEnv)) } :
           purge' = enumerated(purge, startOk, chats)
    /\ UNCHANGED <<purgeEnv, monitorVars, sweepVars, procVars>>

PurgeStart == PurgeStartOf(BOOLEAN)

\* one turn of fetchMessagesFromChat's loop, and what follows when it ends
PurgeFetchPageOf(Outcomes) ==
    /\ purge.pc = "fetching"
    /\ \E out \in Outcomes :
         \E batch \in IF out.ok THEN PurgeSearchAnswers(currentChat(purge).id, purge.offsetId)
                      ELSE { <<>> } :
           LET called == [ purge EXCEPT !.lastCall = callOf(purge, out),
                                        !.callParity = (purge.callParity + 1) % 2,
                                        !.anyError = purge.anyError \/ ~out.ok,
                                        !.answersComplete =
                                            /\ purge.answersComplete
                                            /\ out.ok =>
                                                  batch = fullPage(currentChat(purge).id,
                                                                   purge.offsetId),
                                        !.pageNum = purge.pageNum + 1 ]
               h == handleFloodWait(out.message, 0)
               valid(m) == IsValidMessage(m, SelfUserId)
               paged == [ called EXCEPT !.messages = purge.messages \o SelectSeq(batch, valid),
                                        !.offsetId = batch[Len(batch)].id,
                                        !.sleptMs = IF Len(batch) < FETCH_LIMIT THEN 0
                                                    ELSE BATCH_DELAY ]
           IN  purge' =
                 IF ~out.ok
                 THEN IF h.retry
                      THEN afterFetch([ called EXCEPT
                                          !.sleptMs = h.sleptMs,
                                          !.fetchFailed = ~IsFloodWait(out.message) ])
                      ELSE nextChat([ called EXCEPT
                                        !.sleptMs = 0,
                                        !.fetchFailed = ~IsFloodWait(out.message) ],
                                    0, TRUE)
                 ELSE IF Len(batch) = 0
                 THEN afterFetch([ called EXCEPT !.sleptMs = 0 ])
                 ELSE IF Len(batch) < FETCH_LIMIT \/ paged.pageNum >= fetchMaxPages
                 THEN afterFetch(paged)
                 ELSE paged
    /\ UNCHANGED <<purgeEnv, monitorVars, sweepVars, procVars>>

PurgeFetchPage == PurgeFetchPageOf(CallOutcomes)

\* one turn of deleteMessagesInBatches' loop, and what follows when it ends
PurgeDeleteBatchOf(Outcomes) ==
    /\ purge.pc = "deleting"
    /\ \E out \in Outcomes :
         LET batch == sliceOf(messageIdsOf(purge.messages), purge.i, BATCH_SIZE)
             called == [ purge EXCEPT !.lastCall = callOf(purge, out),
                                      !.callParity = (purge.callParity + 1) % 2,
                                      !.anyError = purge.anyError \/ ~out.ok ]
             h == handleFloodWait(out.message, 0)
             more == purge.i + BATCH_SIZE < Len(purge.messages)
         IN  purge' =
               IF out.ok
               THEN afterBatch([ called EXCEPT !.deletedCount = purge.deletedCount + Len(batch),
                                               !.i = purge.i + BATCH_SIZE,
                                               !.failures = 0,
                                               !.sleptMs = IF Len(purge.messages) > BATCH_SIZE
                                                              /\ more
                                                           THEN BATCH_DELAY ELSE 0 ])
               ELSE IF h.retry
               THEN [ called EXCEPT !.sleptMs = h.sleptMs,
                                    !.failures = IF IsFloodWait(out.message)
                                                 THEN purge.failures
                                                 ELSE Min(purge.failures + 1, MaxFailures) ]
               ELSE afterBatch([ called EXCEPT !.sleptMs = 0,
                                               !.i = purge.i + BATCH_SIZE,
                                               !.failures = 0 ])
    /\ UNCHANGED <<purgeEnv, monitorVars, sweepVars, procVars>>

PurgeDeleteBatch == PurgeDeleteBatchOf(CallOutcomes)

RECURSIVE sumMessageCount(_)
sumMessageCount(results) ==
    IF results = <<>> THEN 0
    ELSE Head(results).messageCount + sumMessageCount(Tail(results))

\* the report after the loop
PurgeReport ==
    /\ purge.pc = "reporting"
    /\ purge' = [ purge EXCEPT !.pc = "closing", !.reported = TRUE,
                               !.totalDeleted = sumMessageCount(purge.results),
                               !.lastCall = NoCall, !.sleptMs = 0 ]
    /\ UNCHANGED <<purgeEnv, monitorVars, sweepVars, procVars>>

\* finally: client.destroy(), whose failure is logged only
PurgeCloseOf(DestroyOutcomes) ==
    /\ purge.pc = "closing"
    /\ \E destroyOk \in DestroyOutcomes :
         purge' = [ purge EXCEPT !.pc = "done", !.destroyed = destroyOk,
                                 !.destroyCalls = @ + 1,
                                 !.anyError = purge.anyError \/ ~destroyOk,
                                 !.lastCall = NoCall, !.sleptMs = 0 ]
    /\ UNCHANGED <<purgeEnv, monitorVars, sweepVars, procVars>>

PurgeClose == PurgeCloseOf(BOOLEAN)

NextPurge ==
    \/ PurgeStart
    \/ PurgeFetchPage
    \/ PurgeDeleteBatch
    \/ PurgeReport
    \/ PurgeClose

SpecPurge == InitPurge /\ [][NextPurge]_vars

\* the purge as the single-threaded event loop runs it: a step that can be
\* taken is taken
SpecPurgeFair == SpecPurge /\ WF_vars(NextPurge)

\* the purge against a backend that answers every call: chat 6 holds a little
\* more than one page, or one message more than the purge reads of a chat
InitPurgeClean ==
    /\ InitMonitorVars(BaseEnv)
    /\ IdleProcVars
    /\ processEnv = NoProcessEnv
    /\ deleteInterval = deleteIntervalOf(AutoDeleteMinutesOf(BaseEnv.AUTO_DELETE_MINUTES))
    /\ sweep = IdleSweep
    /\ calls = NoCalls
    /\ purgeEnv \in PurgeEnvs
    /\ \E n \in {BigChatSize, HugeChatSize} : purge = [IdlePurge EXCEPT !.held = n]

OkOutcome == [ok |-> TRUE, message |-> <<>>]

PurgeStartClean == PurgeStartOf({TRUE})

PurgeFetchPageClean == PurgeFetchPageOf({OkOutcome})

PurgeDeleteBatchClean == PurgeDeleteBatchOf({OkOutcome})

PurgeCloseClean == PurgeCloseOf({TRUE})

NextPurgeClean ==
    \/ PurgeStartClean
    \/ PurgeFetchPageClean
    \/ PurgeDeleteBatchClean
    \/ PurgeReport
    \/ PurgeCloseClean

SpecPurgeClean == InitPurgeClean /\ [][NextPurgeClean]_vars

\* the dedup window W of the configuration, in milliseconds
WindowMs == cfg.DEDUP_WINDOW_MINUTES * 60 * 1000

\* the run that just ended got as far as the dedup check
PassedRules == last.op = "handleMessage" /\ last.outcome \in {"duplicate", "forwarded"}

\* C1: a fingerprint handleMessage forwarded at t0 is dropped, without a call of
\* sendNotification, by every handleMessage at t1 with t0 <= t1 < t0 + W, whatever
\* sweeps ran in between, and the drop leaves the stored timestamp at t0
C1_RepeatWithinWindowDropped ==
    ( /\ last.op = "handleMessage"
      /\ last.prevAccepted # NoTime
      /\ last.prevAccepted <= now
      /\ now < last.prevAccepted + WindowMs )
    => /\ ~last.sendNotification
       /\ last.tsBefore = last.prevAccepted
       /\ last.tsAfter = last.prevAccepted

\* a repeat inside the window, with a sweep between the two runs
C1_Witness ==
    /\ last.outcome = "duplicate"
    /\ last.prevAccepted # NoTime
    /\ last.prevAccepted < now
    /\ now < last.prevAccepted + WindowMs
    /\ lastCleanup # NoTime
    /\ lastCleanup > last.prevAccepted

\* C2 as claimed: once the window has elapsed since the fingerprint was forwarded
\* at t0, a handleMessage for it that passes the rules is forwarded again at
\* every time t0 + W + e, e > 0, whenever the sweep last ran
C2_ForwardedAgainAfterWindow ==
    ( /\ PassedRules
      /\ last.prevAccepted # NoTime
      /\ now > last.prevAccepted + WindowMs )
    => last.sendNotification

\* C2 amended: a handleMessage for a fingerprint forwarded at t0 that passes the
\* rules is forwarded again exactly when a sweep has run at a time later than
\* t0 + W; until that sweep it is still dropped
C2_ForwardedAgainAfterSweep ==
    (PassedRules /\ last.prevAccepted # NoTime)
    => (last.sendNotification <=> last.sweptSince)

\* the fingerprint is forwarded a second time, after a sweep removed its entry
C2_Witness ==
    /\ last.outcome = "forwarded"
    /\ last.prevAccepted # NoTime
    /\ last.sweptSince
    /\ now > last.prevAccepted + WindowMs

\* the normalized forms of the entries of a configured id list
NormalizedEntries(list) == { normalizeId(list[i]) : i \in 1..Len(list) }

\* C3: with a non-empty allow-list, handleMessage calls sendNotification only for
\* a message whose normalized chat id is the normalized form of an allow-list entry
C3_ForwardOnlyAllowListed ==
    ( /\ last.op = "handleMessage"
      /\ Len(cfg.monitorChatIds) > 0
      /\ last.sendNotification )
    => last.chat \in NormalizedEntries(cfg.monitorChatIds)

\* the chat of the run that just ended is one of the configured notification channels
InNotificationChannel ==
    /\ cfg.NOTIFICATION_CHAT_ID # Null
    /\ last.chat \in NormalizedEntries(notificationChatIdsOf(cfg))

\* the run that just ended handled a message of the local identity or of the bot
BySelfOrBot ==
    \/ last.sender = normalizeId(SelfUserId)
    \/ cfg.TELEGRAM_BOT_TOKEN /\ last.sender = normalizeId(BotUserId)

\* C4: a message in any configured notification channel that the local identity
\* or the notification bot authored is never handed to sendNotification
C4_NoFeedbackLoop ==
    (last.op = "handleMessage" /\ InNotificationChannel /\ BySelfOrBot)
    => ~last.sendNotification

\* C5: a handleMessage run on a message of a direct conversation, or of a chat
\* whose normalized id is in the deny list, changes neither the dedup store nor
\* the dispatch records and issues no send and no delete call
C5_DirectOrDeniedNoEffect ==
    [][ ( /\ last'.op = "handleMessage"
          /\ \/ last'.direct
             \/ Includes(cfg.normalizedNotMonitorIds, last'.chat) )
        => /\ processedMessages' = processedMessages
           /\ sentNotificationMessages' = sentNotificationMessages
           /\ notifSeq' = notifSeq
           /\ ~last'.sendNotification
           /\ last'.sends = <<>>
           /\ last'.deletes = <<>> ]_monitorVars

\* a message with a monitoring keyword and a retraction trigger arrives in a
\* denied chat while an earlier notification is on record
C5_Witness ==
    /\ last.op = "handleMessage"
    /\ ~last.direct
    /\ Includes(cfg.normalizedNotMonitorIds, last.chat)
    /\ last.text = TextWinDel
    /\ \E t \in DOMAIN sentNotificationMessages : sentNotificationMessages[t] # <<>>


(***************************************************************************)
(* The periodic sweep: properties                                          *)
(***************************************************************************)
\* the chat is named by an entry of NOT_MONITOR_CHAT_IDS, in plain, signed or
\* prefixed form
IsExcludedChat(chatId) ==
    LET entries == parseConfigList(processEnv.NOT_MONITOR_CHAT_IDS)
    IN  \E i \in 1..Len(entries) :
            /\ normalizeId(entries[i]) # <<>>
            /\ normalizeId(entries[i]) = normalizeId(chatId)

\* C6: the sweep issues no fetch, no search and no delete call against a chat
\* that NOT_MONITOR_CHAT_IDS names in plain, '-' signed or '-100' prefixed form
C6_ExcludedChatNeverTouched ==
    \A i \in 1..Len(Dialogs) :
        IsExcludedChat(Dialogs[i].id) =>
            /\ Dialogs[i].id \notin calls.fetch
            /\ calls.lastDelete.chat # Dialogs[i].id

\* the message of the chat with this id is by the local identity and deletable
IsOwnDeletable(chatId, id) ==
    LET messages == ChatMessages(chatId, sweep.cutoffTime)
    IN  \E i \in 1..Len(messages) :
            /\ messages[i].id = id
            /\ compareSenderId(messages[i].senderId, SelfUserId)
            /\ isDeletableMessage(messages[i])

\* C7: every id the sweep passes to a delete call is the id of a message by the
\* local identity that is no service message and has a body or media; a message
\* of another sender that a fetch or a search returned is never deleted
C7_OnlyOwnDeletableDeleted ==
    \A i \in 1..Len(calls.lastDelete.ids) :
        IsOwnDeletable(calls.lastDelete.chat, calls.lastDelete.ids[i])

\* the messages the backend returned to the scan task that just ended
ReturnedToScan ==
    {calls.lastScan.recent[i] : i \in 1..Len(calls.lastScan.recent)}
        \cup {calls.lastScan.found[i] : i \in 1..Len(calls.lastScan.found)}

KeptByScan ==
    {calls.lastScan.expiredMessages[i] : i \in 1..Len(calls.lastScan.expiredMessages)}

ReachedByRecentPass(i) ==
    \A j \in 1..i :
        calls.lastScan.recent[j].date >= calls.lastScan.nowSec - RECENT_HORIZON_SECONDS

IsOwnDeletableAtCutoffMinus1(m) ==
    /\ m.date = sweep.cutoffTime - 1
    /\ compareSenderId(m.senderId, SelfUserId)
    /\ isDeletableMessage(m)

C9_ZeroOrNegativeDisables ==
    ( /\ parseInt(processEnv.AUTO_DELETE_MINUTES) # NaN
      /\ parseInt(processEnv.AUTO_DELETE_MINUTES) <= 0 ) =>
        /\ deleteInterval = 0
        /\ calls = NoCalls

singleIdsOf(singles) == [i \in 1..Len(singles) |-> singles[i].id]

\* C10: safeDeleteMessages(ids) whose bulk call succeeds returns deleted =
\* |ids| and failed = 0 without an individual call; when the bulk call throws it
\* issues one individual call per id, in the order of ids and whatever the
\* earlier outcomes, and returns the counts of the individual successes and
\* failures, which sum to |ids|
C10_SafeDeleteCounts ==
    LET s == calls.safe
    IN  /\ s.bulk = "ok" =>
              /\ s.returned
              /\ s.singles = <<>>
              /\ s.deleted = Len(s.ids)
              /\ s.failed = 0
        /\ s.bulk = "failed" =>
              /\ singleIdsOf(s.singles) = SubSeq(s.ids, 1, Len(s.singles))
              /\ s.returned <=> Len(s.singles) = Len(s.ids)
              /\ s.returned =>
                    /\ s.failed = Cardinality({i \in 1..Len(s.singles) : ~s.singles[i].ok})
                    /\ s.deleted = Cardinality({i \in 1..Len(s.singles) : s.singles[i].ok})
                    /\ s.deleted + s.failed = Len(s.ids)

\* a fallback over three ids returned after a failure followed by successes
C10_Witness ==
    /\ calls.safe.returned
    /\ calls.safe.bulk = "failed"
    /\ Len(calls.safe.ids) = 3
    /\ ~calls.safe.singles[1].ok
    /\ calls.safe.singles[2].ok
    /\ calls.safe.deleted = 2
    /\ calls.safe.failed = 1

\* the purge's last backend call raised the rate-limit error of 5 seconds
LastCallFlooded ==
    /\ purge.lastCall.op # "none"
    /\ ~purge.lastCall.ok
    /\ purge.lastCall.message = FloodWait5

\* the call the purge issues next is the one it issued last
RetriesLastCall ==
    CurrentCall(purge) = [ op |-> purge.lastCall.op, chat |-> purge.lastCall.chat,
                           arg |-> purge.lastCall.arg ]

\* C11: a backend call of the purge that failed with a rate-limit error of n
\* seconds is followed by a sleep of exactly n seconds and then by the same
\* call again.
C11_FloodWaitSleepsAndRetries ==
    LastCallFlooded => (purge.sleptMs = 5 * 1000 /\ RetriesLastCall)

\* the purge's last backend call was a batch delete that raised an error other
\* than a rate limit
LastDeleteFailed ==
    /\ purge.lastCall.op = "delete"
    /\ ~purge.lastCall.ok
    /\ purge.lastCall.message = TimeoutMessage

\* C12: a batch delete of the purge failing with a non-rate-limit error for
\* the k-th time is retried after 1 s, 2 s, 4 s for k = 1, 2, 3, and at the
\* fourth failure the batch is skipped.
C12_BackoffThenSkip ==
    LastDeleteFailed =>
        IF purge.failures \in 1..maxRetries
        THEN purge.sleptMs = 1000 * Pow2(purge.failures - 1) /\ RetriesLastCall
        ELSE purge.failures = 0

\* C13: when from some point on no call fails with a rate-limit error, the
\* purge reaches Done, whatever other failures the backend keeps answering.
C13_PurgeReachesDone ==
    <>[](~LastCallFlooded) => <>(purge.pc = "done")

\* C14: a chat of the purge whose fetch ended on an error other than a rate
\* limit gets a result of zero deleted messages with an error recorded.
C14_FailedChatZeroWithError ==
    \A k \in 1..Len(purge.results) :
        purge.results[k].fetchFailed =>
            (purge.results[k].messageCount = 0 /\ purge.results[k].error)

\* the number of results scanResults holds for the chat
scanCount(chatId) ==
    Cardinality({ k \in 1..Len(sweep.scanResults) : sweep.scanResults[k].chat = chatId })

\* C15: in the scan phase at most DELETE_CONCURRENCY scan tasks are in flight,
\* the level being 3 when unset and at least 1 for every configured value;
\* every eligible chat is scanned at most once while the scan runs and exactly
\* once when the delete phase begins; a scan both of whose passes failed
\* yields no candidates.
C15_BoundedScanFanOut ==
    /\ deleteConcurrencyOf(processEnv) >= 1
    /\ processEnv.DELETE_CONCURRENCY = Null =>
           deleteConcurrencyOf(processEnv) = DEFAULT_DELETE_CONCURRENCY
    /\ Cardinality(sweep.running) <= deleteConcurrencyOf(processEnv)
    /\ \A i \in 1..Len(sweep.groupDialogs) :
         /\ scanCount(sweep.groupDialogs[i].id) <= 1
         /\ i \in sweep.running => scanCount(sweep.groupDialogs[i].id) = 0
         /\ sweep.pc = "delete" => scanCount(sweep.groupDialogs[i].id) = 1
    /\ sweep.pc = "delete" => Len(sweep.scanResults) = Len(sweep.groupDialogs)
    /\ (calls.lastScan.chat # Null /\ ~calls.lastScan.recentOk /\ ~calls.lastScan.searchOk)
           => calls.lastScan.expiredMessages = <<>>

\* a sweep with one task at a time: the first chat's scan failed in both
\* passes, and the second chat was scanned all the same
C15_Witness ==
    /\ deleteConcurrencyOf(processEnv) = 1
    /\ sweep.pc = "delete"
    /\ Len(sweep.groupDialogs) = 2
    /\ sweep.scanResults[1].expiredMessages = <<>>
    /\ sweep.scanResults[2].expiredMessages # <<>>
    /\ processEnv.DELETE_CONCURRENCY = StrMinus5

\* the configured notification targets
NotificationTargets ==
    { notificationChatIdsOf(cfg)[i] : i \in 1..Len(notificationChatIdsOf(cfg)) }

\* the ids the sends of one sendNotification call returned for target t
RECURSIVE idsDispatchedTo(_, _)
idsDispatchedTo(dispatched, t) ==
    IF dispatched = <<>> THEN <<>>
    ELSE (IF Head(dispatched).target = t THEN <<Head(dispatched).id>> ELSE <<>>)
         \o idsDispatchedTo(Tail(dispatched), t)

\* C16: a handler run that retracts leaves, for every target whose record
\* held ids, the key in the map with none of the old ids (only the ids the
\* same run dispatched afterwards); a retraction right after a retraction
\* that dispatched nothing issues no delete call.
C16_RetractionClearsRecord ==
    [][ (last'.op = "handleMessage" /\ last'.retract) =>
          /\ \A t \in NotificationTargets :
               recordOf(sentNotificationMessages, t) # <<>> =>
                 /\ t \in DOMAIN sentNotificationMessages'
                 /\ sentNotificationMessages'[t] = idsDispatchedTo(last'.dispatched, t)
          /\ (last.op = "handleMessage" /\ last.retract /\ last.dispatched = <<>>)
                 => last'.deletes = <<>> ]_vars

\* with the bot, a retraction that found a cleared record still under its key
\* and issued no delete call
C16_Witness ==
    /\ cfg.TELEGRAM_BOT_TOKEN
    /\ last.op = "handleMessage"
    /\ last.retract
    /\ last.deletes = <<>>
    /\ last.dispatched = <<>>
    /\ \E t \in NotificationTargets :
         t \in DOMAIN sentNotificationMessages /\ sentNotificationMessages[t] = <<>>

\* C17: a handler run that retracts issues, for every target and every id in
\* the target's record, a delete call for that id before the record is cleared.
C17_EveryRecordedIdGetsDeleteCall ==
    [][ (last'.op = "handleMessage" /\ last'.retract) =>
          \A t \in NotificationTargets :
            \A i \in 1..Len(recordOf(sentNotificationMessages, t)) :
              \E j \in 1..Len(last'.deletes) :
                /\ last'.deletes[j].chat = t
                /\ Includes(last'.deletes[j].ids,
                            recordOf(sentNotificationMessages, t)[i]) ]_vars

\* the text of the message just handled contains a retraction trigger keyword
HasTrigger ==
    /\ last.op = "handleMessage"
    /\ \E k \in 1..Len(cfg.deleteNotificationKeywords) :
         IsSubstring(last.text, cfg.deleteNotificationKeywords[k])

\* the message just handled arrived in a monitored chat: a group that is not
\* on the deny list and that the allow-list, when there is one, names
InMonitoredChat ==
    /\ ~last.direct
    /\ last.outcome # "broadcast"
    /\ ~Includes(cfg.normalizedNotMonitorIds, last.chat)
    /\ \/ Len(cfg.monitorChatIds) = 0
       \/ last.chat \in NormalizedEntries(cfg.monitorChatIds)

InRecognizedNotificationChannel ==
    /\ ~last.direct
    /\ last.outcome # "broadcast"
    /\ ~Includes(cfg.normalizedNotMonitorIds, last.chat)
    /\ last.chat = normalizeId(cfg.NOTIFICATION_CHAT_ID)

\* no target users are configured, or the sender is one of them
SenderMayTrigger ==
    \/ Len(cfg.targetUserIdsNormalized) = 0
    \/ Includes(cfg.targetUserIdsNormalized, last.sender)

C20_DispatchAppends ==
    [][ \A t \in DOMAIN sentNotificationMessages \cup DOMAIN sentNotificationMessages'
                 \cup NotificationTargets :
          LET before == recordOf(sentNotificationMessages, t)
              after == recordOf(sentNotificationMessages', t)
              new == IF last'.op = "handleMessage"
                     THEN idsDispatchedTo(last'.dispatched, t) ELSE <<>>
          IN  /\ \A k \in 1..Len(new) : ~Includes(before, new[k])
              /\ IF last'.op = "handleMessage" /\ last'.retract
                    /\ t \in NotificationTargets
                 THEN after = new
                 ELSE after = before \o new ]_vars

\* a run without retraction, one send failed and one succeeded: the record of
\* the target reached holds its old id and then the new one
C20_Witness ==
    /\ last.op = "handleMessage"
    /\ ~last.retract
    /\ Len(last.sends) = 2
    /\ Len(last.dispatched) = 1
    /\ \E t \in NotificationTargets :
         /\ last.dispatched[1].target = t
         /\ Len(recordOf(sentNotificationMessages, t)) = 2
         /\ sentNotificationMessages[t][2] = last.dispatched[1].id

\* C21: normalizeId applied to the result of normalizeId gives that result.
C21_NormalizeIdIdempotent ==
    Len(idCall.results) >= 2 => idCall.results[2] = idCall.results[1]

\* the last handler run went as far as the keyword step
ReachedKeywordStep ==
    /\ last.op = "handleMessage"
    /\ last.outcome \in {"noMatch", "duplicate", "forwarded"}

SenderIsTargetUser == Includes(cfg.targetUserIdsNormalized, last.sender)

KeywordRulePasses ==
    \/ /\ SenderIsTargetUser
       /\ \/ Len(cfg.userKeywordsNormalized) = 0
          \/ matchKeyword(cfg.userKeywordsNormalized, ToLower(last.text))
    \/ matchKeyword(cfg.monitorKeywordsNormalized, ToLower(last.text))
    \/ Len(cfg.monitorKeywordsNormalized) = 0 /\ Len(cfg.userKeywordsNormalized) = 0

\* C22: a message that reached the keyword step goes on to dedup and forwarding
\* exactly when its sender is a target user and no per-user keyword is configured
\* or one matches, or a global keyword matches, or both keyword lists are empty;
\* otherwise the handler returns with no dedup entry added and nothing dispatched
C22_KeywordRule ==
    ReachedKeywordStep =>
        /\ last.outcome \in {"duplicate", "forwarded"} <=> KeywordRulePasses
        /\ ~KeywordRulePasses =>
              /\ last.tsAfter = last.tsBefore
              /\ ~last.sendNotification
              /\ last.sends = <<>>

\* a target user's message without any keyword is forwarded although a global
\* keyword list is configured, and another sender's same text is not
C22_Witness ==
    /\ ReachedKeywordStep
    /\ last.outcome = "forwarded"
    /\ SenderIsTargetUser
    /\ last.text = TextHi
    /\ Len(cfg.monitorKeywordsNormalized) > 0
    /\ Len(cfg.userKeywordsNormalized) = 0

\* the last handler run was given a message with neither a text body nor media:
\* processMessageContent names it by the placeholder of that case
LastMessageHadNoContent ==
    /\ last.op = "handleMessage"
    /\ last.text = EmptyPlaceholder

\* C23: a message with neither a text body nor media is dropped by the handler:
\* it is not forwarded and no dedup entry is created for it, whatever the
\* keyword configuration
C23_EmptyMessageDropped ==
    LastMessageHadNoContent =>
        /\ last.outcome # "forwarded"
        /\ ~last.sendNotification
        /\ last.tsAfter = last.tsBefore

\* the chat is one MONITOR_CHAT_IDS names, in whatever form the entry is written
InPurgeMonitorList(chatId) ==
    \E i \in 1..Len(parseConfigList(purgeEnv.MONITOR_CHAT_IDS)) :
        normalizeId(parseConfigList(purgeEnv.MONITOR_CHAT_IDS)[i]) = normalizeId(chatId)

\* C24: in the one-shot purge, when DELETE_HISTORY_MODE is not 'true', no fetch
\* and no delete call is issued against a chat that MONITOR_CHAT_IDS does not
\* list, whatever the monitor list is
C24_PurgeOnlyMonitorListed ==
    (purgeEnv.DELETE_HISTORY_MODE # StrTrue /\ purge.lastCall.op # "none")
    => InPurgeMonitorList(purge.lastCall.chat)

\* the user's deletable messages the backend holds of a chat
deletableOwn(chatId) ==
    LET valid(m) == IsValidMessage(m, SelfUserId)
    IN  SelectSeq(PurgeMessages(chatId), valid)

\* the purge has finished and no backend call failed or answered short
FinishedWithoutError ==
    /\ purge.pc = "done"
    /\ ~purge.anyError
    /\ purge.answersComplete

\* C25: when the one-shot purge finishes without any backend error, no deletable
\* message of the local identity remains in any processed chat, however many
\* the chat held when the purge started: as many were deleted as the chat held
C25_NothingLeftAfterPurge ==
    FinishedWithoutError =>
        \A k \in 1..Len(purge.results) :
            purge.results[k].deletedCount = Len(deletableOwn(purge.results[k].chat))

\* C26: on a shutdown signal stopMonitoring clears the dedup-cleanup, heartbeat
\* and auto-delete timers before it invokes disconnect on the client, no timer
\* callback starts after the client has been released, and a second signal
\* during shutdown causes no second disconnect
C26_ShutdownOrder ==
    /\ ~proc.timersAtDisconnect
    /\ ~proc.firedAfterRelease
    /\ proc.disconnects <= 1

\* the required configuration is complete
RequiredConfigPresent ==
    procEnv.APP_ID /\ procEnv.APP_API_HASH /\ procEnv.STRING_SESSION

\* C27: the monitor process exits with status 0 only after a graceful shutdown;
\* it exits with a non-zero status when APP_ID, APP_API_HASH or STRING_SESSION
\* is absent and when the backend connection cannot be established at startup
C27_ExitStatus ==
    proc.pc = "exited" =>
        /\ ~RequiredConfigPresent => proc.exitCode # 0
        /\ proc.startup = "failed" => proc.exitCode # 0
        /\ proc.exitCode = 0 => proc.signals > 0

\* C28: the dedup window the periodic sweep uses is strictly positive whatever
\* DEDUP_WINDOW_MINUTES is set to (zero, negative and not a number included), so
\* the sweep never removes an entry younger than a positive window: an entry
\* stored at this very instant is still in the store
C28_SweepWindowPositive ==
    /\ lastCleanup # NoTime => cfg.DEDUP_WINDOW_MINUTES > 0
    /\ \A k \in DOMAIN acceptedAt :
           acceptedAt[k] = now => k \in DOMAIN processedMessages

\* the recent pass has run on the fetch
RecentPassDone == calls.lastScan.chat # Null

\* the i-th message of the fetch is a message of the local identity sent this
\* many seconds before the sweep started
OwnSentBefore(i, age) ==
    /\ calls.lastScan.recent[i].date = sweep.nowTimestamp - age
    /\ compareSenderId(calls.lastScan.recent[i].senderId, SelfUserId)

ReachedMonitoredTest ==
    /\ last.op = "handleMessage"
    /\ last.outcome \in {"notMonitored", "empty", "noMatch", "duplicate", "forwarded"}

\* the allow-list is not empty and names the old id of the chat, not its
\* current id
ListedUnderOldIdOnly ==
    /\ Len(cfg.monitorChatIds) > 0
    /\ last.chat \notin NormalizedEntries(cfg.monitorChatIds)
    /\ last.oldChat # <<>>
    /\ last.oldChat \in NormalizedEntries(cfg.monitorChatIds)

\* C30: with a non-empty allow-list that does not contain the current chat id
\* of a message, the handler still treats the message as monitored when its
\* peer carries an old chat id whose normalized form is in the allow-list
C30_MigratedChatMonitored ==
    (ReachedMonitoredTest /\ ListedUnderOldIdOnly) => last.outcome # "notMonitored"

\* a letter or a digit
IsAlphanumeric(c) ==
    \/ c \in DigitChars
    \/ \E i \in 1..26 : LowerChars[i] = c \/ UpperChars[i] = c

\* the keyword stands in the text at offset i, letters compared without case
OccursAt(text, kw, i) ==
    /\ i + Len(kw) <= Len(text)
    /\ \A j \in 1..Len(kw) : ToLowerChar(text[i + j]) = ToLowerChar(kw[j])

\* an occurrence at offset i that neither follows nor precedes a word character
AtWordBoundaries(text, kw, i) ==
    /\ i = 0 \/ ~IsWordChar(text[i])
    /\ i + Len(kw) = Len(text) \/ ~IsWordChar(text[i + Len(kw) + 1])

\* the match the claim describes, of one keyword
KeywordMatches(text, kw) ==
    IF \A j \in 1..Len(kw) : IsAlphanumeric(kw[j])
    THEN \E i \in 0..Len(text) : OccursAt(text, kw, i) /\ AtWordBoundaries(text, kw, i)
    ELSE \E i \in 0..Len(text) : OccursAt(text, kw, i)

HasNoRepeat(seq) ==
    \A i \in 1..Len(seq) : \A j \in 1..Len(seq) : i # j => seq[i] # seq[j]

\* every scan result of the sweep holds each message id once
ScanResultIdsUnique ==
    \A r \in 1..Len(sweep.scanResults) :
        HasNoRepeat(messageIdsOf(sweep.scanResults[r].expiredMessages))

\* C32 as claimed: the scan result of a chat holds each message id at most once,
\* and no id is passed twice to delete calls within one sweep: an id handed to
\* a bulk delete call is not handed to another delete call
C32_NoIdPassedTwice ==
    /\ ScanResultIdsUnique
    /\ \A i \in 1..Len(calls.safe.singles) :
           ~Includes(calls.safe.ids, calls.safe.singles[i].id)

\* C32 amended: the scan result of a chat holds each message id at most once,
\* also when both passes return the same message; each id goes to one bulk
\* delete call, and to one more call, with that id alone, only in the fallback
\* that follows a failed bulk call
C32_IdOncePerCallKind ==
    /\ ScanResultIdsUnique
    /\ HasNoRepeat(calls.safe.ids)
    /\ HasNoRepeat(singleIdsOf(calls.safe.singles))
    /\ calls.safe.singles # <<>> => calls.safe.bulk = "failed"
    /\ \A i \in 1..Len(calls.safe.singles) :
           Includes(calls.safe.ids, calls.safe.singles[i].id)

\* a scan in which the search returned a message that the recent pass kept too,
\* and the merged result holds it once
C32_Witness ==
    /\ calls.lastScan.chat # Null
    /\ \E m \in KeptByScan :
         /\ Includes(calls.lastScan.found, m)
         /\ Includes(getRecentMessagesRealtime(calls.lastScan.recent, SelfUserId,
                                               sweep.cutoffTime, calls.lastScan.nowSec), m)
    /\ HasNoRepeat(messageIdsOf(calls.lastScan.expiredMessages))

\* a delete call has just been issued
DeleteCallIssued == calls.lastDelete.chat # Null

\* the scan result of the chat the delete phase is at
ResultAtWork == sweep.scanResults[sweep.ri + 1]

\* C33: within one periodic sweep no delete call is issued before the scan tasks
\* of all chats have completed; the delete calls of a chat carry ids of the
\* candidate set its own scan returned, a batch of it at a time, and the calls
\* go chat by chat in the order of the scan results
C33_ScanThenDeletePerChat ==
    DeleteCallIssued =>
        /\ sweep.pc = "delete"
        /\ sweep.running = {}
        /\ Len(sweep.scanResults) = Len(sweep.groupDialogs)
        /\ sweep.ri < Len(sweep.scanResults)
        /\ calls.lastDelete.chat = ResultAtWork.chat
        /\ \A i \in 1..Len(calls.lastDelete.ids) :
               Includes(messageIdsOf(ResultAtWork.expiredMessages),
                        calls.lastDelete.ids[i])
        /\ \E o \in 0..Len(ResultAtWork.expiredMessages) :
               calls.safe.ids = sliceOf(messageIdsOf(ResultAtWork.expiredMessages), o,
                                        deleteBatchSizeOf(processEnv))

\* a delete call for the chat of the second scan result, after one for the first
C33_Witness ==
    /\ DeleteCallIssued
    /\ sweep.ri = 1
    /\ Len(sweep.scanResults) = 2
    /\ sweep.scanResults[1].expiredMessages # <<>>
    /\ calls.lastDelete.chat = sweep.scanResults[2].chat

RECURSIVE Flatten(_)
Flatten(seqs) == IF seqs = <<>> THEN <<>> ELSE Head(seqs) \o Flatten(Tail(seqs))

RECURSIVE IdsOfResults(_, _)
IdsOfResults(results, n) ==
    IF n = 0 THEN 0
    ELSE Len(results[n].expiredMessages) + IdsOfResults(results, n - 1)

\* the ids of the chat at work the chunk loop is done with
IdsChunked == Min(sweep.off, Len(ResultAtWork.expiredMessages))

\* the chunk loop of the chat at work has ended
ChunkLoopEnded ==
    /\ sweep.pc = "delete"
    /\ sweep.k = 0
    /\ sweep.ri < Len(sweep.scanResults)
    /\ sweep.off >= Len(ResultAtWork.expiredMessages)

\* in the delete phase: the effective chunk size is at least 1, every chunk holds
\* between 1 and that many ids, the chunks so far are the id list up to the
\* loop's offset in order, so that at the end of the loop every id is in exactly
\* one chunk, and between two safeDeleteMessages calls deleted + failed is the
\* number of ids chunked so far
ChunksPartition ==
    /\ deleteBatchSizeOf(processEnv) >= 1
    /\ (sweep.pc = "delete" /\ sweep.ri < Len(sweep.scanResults)) =>
          /\ \A b \in 1..Len(calls.batches) :
                 /\ Len(calls.batches[b]) >= 1
                 /\ Len(calls.batches[b]) <= deleteBatchSizeOf(processEnv)
          /\ Flatten(calls.batches) =
                 SubSeq(messageIdsOf(ResultAtWork.expiredMessages), 1,
                        IF sweep.k = 0 THEN IdsChunked
                        ELSE Min(sweep.off + deleteBatchSizeOf(processEnv),
                                 Len(ResultAtWork.expiredMessages)))
    /\ ChunkLoopEnded =>
          Flatten(calls.batches) = messageIdsOf(ResultAtWork.expiredMessages)
    /\ (sweep.pc = "delete" /\ sweep.k = 0) =>
          sweep.totalDeleted + sweep.totalFailed =
              IdsOfResults(sweep.scanResults, sweep.ri)
              + (IF sweep.ri < Len(sweep.scanResults) THEN IdsChunked ELSE 0)

\* a step of the chunk loop moves on: to the next chunk, or within the fallback
\* of safeDeleteMessages to the next id of the chunk, which has no more than
\* the chunk's ids
ChunkLoopAdvances ==
    (sweep.pc = "delete" /\ sweep'.pc = "delete" /\ sweep'.ri = sweep.ri) =>
        /\ sweep.off < Len(ResultAtWork.expiredMessages)
        /\ \/ sweep'.off > sweep.off /\ sweep'.k = 0
           \/ /\ sweep'.off = sweep.off
              /\ sweep'.k > sweep.k
              /\ sweep'.k <= Len(calls'.safe.ids)

\* C34: the delete phase splits a chat's id list into consecutive chunks of at
\* most DELETE_BATCH_SIZE ids (100 by default, never less than 1), every id is in
\* exactly one chunk, the chunk loop terminates, and deleted + failed is the
\* number of ids
C34_ChunksCoverIdList == []ChunksPartition /\ [][ChunkLoopAdvances]_vars

\* a list of three ids went out in a chunk of two and a chunk of one, the first
\* of them deleted one by one after the failed bulk call
C34_Witness ==
    /\ ChunkLoopEnded
    /\ deleteBatchSizeOf(processEnv) = 2
    /\ Len(calls.batches) = 2
    /\ Len(calls.batches[1]) = 2
    /\ Len(calls.batches[2]) = 1
    /\ sweep.totalFailed >= 1
    /\ sweep.totalDeleted >= 1

\* client.destroy() is called at most once, and the run has ended exactly when
\* it has been called
ClosedOnce ==
    /\ purge.destroyCalls <= 1
    /\ purge.pc = "done" <=> purge.destroyCalls = 1

\* an error in connecting or enumerating and the early return of a run that
\* matched no chat lead to the finally block, as does the report
ClosingEntered ==
    /\ (purge.pc = "idle" /\ purge'.pc # "idle") =>
           \/ purge'.pc = "closing"
           \/ purge'.pc = "fetching" /\ purge'.chats # <<>> /\ ~purge'.anyError
    /\ (~purge.reported /\ purge'.reported) => purge'.pc = "closing"

\* the run ends from the finally block only, by the one client.destroy() call
ClosingLeft ==
    (purge.pc # "done" /\ purge'.pc = "done") =>
        /\ purge.pc = "closing"
        /\ purge.destroyCalls = 0
        /\ purge'.destroyCalls = 1

\* C35: once the client of the one-shot purge is created, client.destroy() is
\* attempted exactly once on every path, after the report, after the early
\* return of a run that matched no chat and after an error in connecting or
\* enumerating alike; the run never ends without the attempt
C35_DestroyAttemptedOnce ==
    /\ []ClosedOnce
    /\ [][ClosingEntered /\ ClosingLeft]_vars
    /\ (purge.pc = "closing" ~> purge.pc = "done")
    /\ (purge.reported ~> purge.pc = "done")

\* the run ended by the early return: connected, no chat matched, nothing
\* reported, client.destroy() called
C35_Witness ==
    /\ purge.pc = "done"
    /\ purge.destroyCalls = 1
    /\ ~purge.anyError
    /\ ~purge.reported
    /\ purge.chats = <<>>

\* the run ended after an error in connecting or enumerating
C35_WitnessError ==
    /\ purge.pc = "done"
    /\ purge.destroyCalls = 1
    /\ purge.anyError
    /\ purge.destroyed
    /\ purge.chats = <<>>

\* the scan task of the chat has run
CoverScanDone == calls.lastScan.chat # Null

\* C36: in one sweep of a chat every deletable message of the user sent before
\* the cutoff, within the fetch bounds, is returned by the recent pass or by the
\* historical pass: the horizon of the one and the max-date of the other leave
\* no sending time uncovered between them
C36_NoGapBetweenPasses ==
    CoverScanDone =>
        \A i \in 1..Len(calls.lastScan.recent) :
            LET msg == calls.lastScan.recent[i]
            IN  (/\ compareSenderId(msg.senderId, SelfUserId)
                 /\ isDeletableMessage(msg)
                 /\ msg.date < sweep.cutoffTime)
                => \E j \in 1..Len(calls.lastScan.expiredMessages) :
                       calls.lastScan.expiredMessages[j].id = msg.id

\* the same with one clock reading for both passes
C36_NoGapOnOneClock ==
    (CoverScanDone /\ calls.lastScan.nowSec = calls.lastScan.searchNow)
        => C36_NoGapBetweenPasses

RECURSIVE CountOf(_, _)
CountOf(seq, x) ==
    IF seq = <<>> THEN 0
    ELSE (IF Head(seq) = x THEN 1 ELSE 0) + CountOf(Tail(seq), x)

\* C37: of the handleMessage invocations that carry the same chatId:messageId
\* and overlap, suspended at their backend calls, at most one calls
\* sendNotification while the key is in the dedup store; an invocation that
\* awaits sendNotification has its key in the store, the test and the insertion
\* being one step
C37_OneSendPerFingerprint ==
    /\ \A k \in 1..Len(inflight.sendCalls) :
           /\ inflight.sendCalls[k] \in DOMAIN processedMessages
           /\ CountOf(inflight.sendCalls, inflight.sendCalls[k]) = 1
    /\ \A h \in 1..MaxHandlers :
           inflight.handlers[h].pc = "sending" =>
               inflight.handlers[h].key \in DOMAIN processedMessages

\* two invocations were in flight with the same message at once, one of them
\* was dropped as a duplicate while the other awaited sendNotification
C37_Witness ==
    /\ inflight.handlers[1].pc = "sending"
    /\ inflight.handlers[1].key \in inflight.dropped
    /\ inflight.updates = 2
    /\ inflight.sendCalls = <<inflight.handlers[1].key>>

\* the id pushed to the record of target t is in the record, or has been handed
\* to a delete call
IdAccountedFor(t, id) ==
    \/ Includes(recordOf(sentNotificationMessages, t), id)
    \/ <<t, id>> \in inflight.deleted

\* C38: for any interleaving of a dispatch and a retraction on the same target,
\* suspended at their backend calls, no dispatched id is lost: every id ever
\* appended to a DispatchRecord is still in the record or has had a delete call
\* issued for it (runs in which a retraction fails to resolve the chat of its
\* target, and clears the record without any delete call, are left aside)
C38_NoDispatchedIdLost ==
    ~inflight.noEntity => \A p \in inflight.appended : IdAccountedFor(p[1], p[2])

\* the same for the runs with a bot token, where the retraction deletes id by
\* id in a loop over the array the dispatch pushes to
C38_NoIdLostWithBotToken ==
    cfg.TELEGRAM_BOT_TOKEN => C38_NoDispatchedIdLost

\* C40: the dedup entry of a message is in the store before its notification is
\* dispatched and is not removed when delivery fails: after a delivery that
\* failed on every target the key is still in the store, so a replay of the same
\* chatId:messageId is dropped and sendNotification is not called for it again
C40_EntryKeptOnFailure ==
    /\ \A h \in 1..MaxHandlers :
           inflight.handlers[h].pc = "sending" =>
               inflight.handlers[h].key \in DOMAIN processedMessages
    /\ \A key \in inflight.sendFailed :
           /\ key \in DOMAIN processedMessages
           /\ CountOf(inflight.sendCalls, key) = 1

\* the delivery of a message failed on every target, and a replay of it that
\* came after the failure was dropped as a duplicate
C40_Witness ==
    \E key \in inflight.sendFailed :
        /\ key \in inflight.replayed
        /\ inflight.sendCalls = <<key>>
        /\ inflight.appended = {}
        /\ inflight.updates = 2
        /\ \A h \in 1..MaxHandlers : inflight.handlers[h].pc = "idle"

\* the deleteExpiredMessages runs in progress
SweepsInProgress == (IF sweep.pc = "idle" THEN 0 ELSE 1) + Len(inflight.sweeps)

\* C39: at most one periodic expiry sweep is in progress at any time: a timer
\* tick that fires while the sweep before it is still scanning or deleting
\* starts no second sweep over the same chats
C39_OneSweepAtATime == SweepsInProgress <= 1

=============================================================================
